---- MODULE Spec2Model ----
(***************************************************************************)
(* Endgame knowledge of Stockfish (src/endgame.cpp): the registry that     *)
(* binds material keys to specialised evaluators, the square normaliser,   *)
(* the distance tables, and the evaluation functions themselves.           *)
(*                                                                         *)
(* State: the two maps of an Endgames object while its constructor runs    *)
(* and afterwards, and one evaluation in flight (the position handed in,   *)
(* the function the lookup selected, the bitbase's answer, the value       *)
(* returned).  `call2' is the call in flight of a second worker, which     *)
(* looks the function up and evaluates in two steps.                       *)
(***************************************************************************)
EXTENDS Integers, Sequences, FiniteSets, TLC

VARIABLES pc, m1, m2, phase, pos, fn, bitbase, ret, call2

vars == <<pc, m1, m2, phase, pos, fn, bitbase, ret, call2>>

(***************************************************************************)
(* Types of types.h: colours, piece types, squares, files and ranks.       *)
(***************************************************************************)
WHITE == 0
BLACK == 1
Color == {WHITE, BLACK}

PieceTypes == {"P", "N", "B", "R", "Q", "K"}

SQUARE_NB == 64
Square == 0..(SQUARE_NB - 1)

FILE_A == 0
FILE_B == 1
FILE_C == 2
FILE_D == 3
FILE_E == 4
FILE_F == 5
FILE_G == 6
FILE_H == 7

RANK_1 == 0
RANK_2 == 1
RANK_3 == 2
RANK_4 == 3
RANK_5 == 4
RANK_6 == 5
RANK_7 == 6
RANK_8 == 7

DELTA_N == 8
DELTA_S == -8

SQ_A1 == 0
SQ_H1 == 7
SQ_G2 == 14
SQ_H5 == 39
SQ_A7 == 48
SQ_G7 == 54
SQ_H7 == 55
SQ_A8 == 56

VALUE_ZERO == 0
VALUE_DRAW == 0
VALUE_KNOWN_WIN == 10000
PawnValueEg == 258
KnightValueMg == 817
BishopValueMg == 836
RookValueMg == 1270
RookValueEg == 1278
QueenValueMg == 2521
QueenValueEg == 2558

SCALE_FACTOR_DRAW == 0
SCALE_FACTOR_MAX == 128
SCALE_FACTOR_NONE == 255

Abs(x) == IF x < 0 THEN -x ELSE x

Max(a, b) == IF a > b THEN a ELSE b

Min(a, b) == IF a < b THEN a ELSE b

\* ~c: the other colour
Them(c) == 1 - c

file_of(s) == s % 8

rank_of(s) == s \div 8

make_square(f, r) == 8 * r + f

\* Square(s ^ 7): the three file bits inverted
MirrorFile(s) == make_square(7 - file_of(s), rank_of(s))

\* ~s, Square(s ^ 56): the three rank bits inverted (SQ_A1 -> SQ_A8)
FlipRank(s) == make_square(file_of(s), 7 - rank_of(s))

\* relative_rank(c, r) is r ^ (c * 7); relative_rank(c, s) that of s's rank
relative_rank(c, s) == IF c = WHITE THEN rank_of(s) ELSE 7 - rank_of(s)

\* relative_square(c, s) is s ^ (c * 56)
relative_square(c, s) == IF c = WHITE THEN s ELSE FlipRank(s)

pawn_push(c) == IF c = WHITE THEN DELTA_N ELSE DELTA_S

\* distance<File>, distance<Rank> and distance (SquareDistance) of bitboard.h
file_distance(s1, s2) == Abs(file_of(s1) - file_of(s2))

rank_distance(s1, s2) == Abs(rank_of(s1) - rank_of(s2))

distance(s1, s2) == Max(file_distance(s1, s2), rank_distance(s1, s2))

\* opposite_colors(s1, s2): ((s >> 3) ^ s) & 1 with s = s1 ^ s2
opposite_colors(s1, s2) ==
  (file_of(s1) + rank_of(s1) + file_of(s2) + rank_of(s2)) % 2 = 1

(***************************************************************************)
(* The distance tables (0-based in the source, 1-based sequences here).    *)
(***************************************************************************)
PushToEdgesTable ==
  << 100, 90, 80, 70, 70, 80, 90, 100,
      90, 70, 60, 50, 50, 60, 70,  90,
      80, 60, 40, 30, 30, 40, 60,  80,
      70, 50, 30, 20, 20, 30, 50,  70,
      70, 50, 30, 20, 20, 30, 50,  70,
      80, 60, 40, 30, 30, 40, 60,  80,
      90, 70, 60, 50, 50, 60, 70,  90,
     100, 90, 80, 70, 70, 80, 90, 100 >>

PushToCornersTable ==
  << 200, 190, 180, 170, 160, 150, 140, 130,
     190, 180, 170, 160, 150, 140, 130, 140,
     180, 170, 155, 140, 140, 125, 140, 150,
     170, 160, 140, 120, 110, 140, 150, 160,
     160, 150, 140, 110, 120, 140, 160, 170,
     150, 140, 125, 140, 140, 155, 170, 180,
     140, 130, 140, 150, 160, 170, 180, 190,
     130, 140, 150, 160, 170, 180, 190, 200 >>

PushCloseTable == << 0, 0, 100, 80, 60, 40, 20, 10 >>

PushAwayTable == << 0, 5, 20, 40, 60, 80, 90, 100 >>

PushToEdges(s) == PushToEdgesTable[s + 1]

PushToCorners(s) == PushToCornersTable[s + 1]

PushClose(d) == PushCloseTable[d + 1]

PushAway(d) == PushAwayTable[d + 1]

(***************************************************************************)
(* Positions, as far as this file reads them: the side to move and the     *)
(* piece lists of both colours.  list[c][pt] is pos.list<pt>(c), 1-based.  *)
(***************************************************************************)
\* A position with the given side to move and piece lists
MkPos(stm, white, black) ==
  [stm |-> stm, list |-> [c \in Color |-> IF c = WHITE THEN white ELSE black]]

\* A position in which colour c holds the lists `own' and the other `other'
PosOf(stm, c, own, other) ==
  IF c = WHITE THEN MkPos(stm, own, other) ELSE MkPos(stm, other, own)

side_to_move(p) == p.stm

count(p, c, pt) == Len(p.list[c][pt])

king_square(p, c) == p.list[c]["K"][1]

SeqSet(q) == {q[i] : i \in 1..Len(q)}

\* pos.pieces(c, pt) and pos.pieces(c), as sets of squares
pieces(p, c, pt) == SeqSet(p.list[c][pt])

pieces_of(p, c) == UNION {pieces(p, c, pt) : pt \in PieceTypes}

occupied(p) == pieces_of(p, WHITE) \cup pieces_of(p, BLACK)

\* pos.non_pawn_material(c): middle-game values of the pieces, kings and pawns aside
non_pawn_material(p, c) ==
    count(p, c, "N") * KnightValueMg + count(p, c, "B") * BishopValueMg
  + count(p, c, "R") * RookValueMg   + count(p, c, "Q") * QueenValueMg

verify_material(p, c, npm, numPawns) ==
  non_pawn_material(p, c) = npm /\ count(p, c, "P") = numPawns

\* pos.bishop_pair(c): two bishops or more, on squares of both colours
bishop_pair(p, c) ==
  /\ count(p, c, "B") >= 2
  /\ \E a, b \in pieces(p, c, "B") : opposite_colors(a, b)

(***************************************************************************)
(* Material keys.  A key stands for the piece census of a position: how    *)
(* many pieces of each type each colour has.                               *)
(***************************************************************************)
\* The key of a census n (n[c][pt] pieces of type pt for colour c): one number
\* per colour, the counts as its digits to base 8, so that different censuses
\* of at most 7 pieces of a type have different keys
KeyOfCensus(n) ==
  LET digits(c) == n[c]["P"] + 8 * (n[c]["N"] + 8 * (n[c]["B"] + 8 * (n[c]["R"]
                 + 8 * (n[c]["Q"] + 8 * n[c]["K"]))))
  IN  << digits(WHITE), digits(BLACK) >>

\* pos.material_key() of a position given by its piece lists
material_key(p) == KeyOfCensus([c \in Color |-> [pt \in PieceTypes |-> count(p, c, pt)]])

\* The character of a piece in a FEN string (PieceToChar)
PieceToChar(c, pt) ==
  IF c = WHITE THEN pt
  ELSE CASE pt = "P" -> "p" [] pt = "N" -> "n" [] pt = "B" -> "b"
         [] pt = "R" -> "r" [] pt = "Q" -> "q" [] pt = "K" -> "k"

tolower(ch) ==
  CASE ch = "P" -> "p" [] ch = "N" -> "n" [] ch = "B" -> "b"
    [] ch = "R" -> "r" [] ch = "Q" -> "q" [] ch = "K" -> "k"
    [] OTHER -> ch

\* std::transform(s.begin(), s.end(), s.begin(), tolower)
ToLowerAll(s) == [i \in 1..Len(s) |-> tolower(s[i])]

\* code.find(ch, from): the least index (0-based) at or after `from' holding ch
find(code, ch, from) ==
  LET hits == {i \in from..(Len(code) - 1) : code[i + 1] = ch}
  IN  IF hits = {} THEN -1 ELSE CHOOSE i \in hits : \A j \in hits : i <= j

\* code.substr(from): from index `from' (0-based) to the end
substr_from(code, from) == SubSeq(code, from + 1, Len(code))

\* code.substr(0, n)
substr_to(code, n) == SubSeq(code, 1, Min(n, Len(code)))

\* char(n + '0')
DigitChar(n) == << "0", "1", "2", "3", "4", "5", "6", "7", "8", "9" >>[n + 1]

\* Position(fenString, false, NULL).material_key(): the census of the piece
\* characters of the placement field (the text before the first blank)
FenMaterialKey(fen) ==
  LET stop == find(fen, " ", 0)
      field == IF stop = -1 THEN fen ELSE substr_to(fen, stop)
  IN  KeyOfCensus([c \in Color |-> [pt \in PieceTypes |->
         Cardinality({i \in 1..Len(field) : field[i] = PieceToChar(c, pt)})]])

\* FenOfCode with the lower-casing applied to the weak side whatever the colour
FenOfCode_LowerWeak(code, color) ==
  LET weak   == substr_from(code, find(code, "K", 1))
      strong == substr_to(code, find(code, "K", 1))
      s0 == ToLowerAll(weak)
      s1 == strong
  IN  s0 \o << DigitChar(8 - Len(s0)) >>
         \o << "/", "8", "/", "8", "/", "8", "/", "8", "/", "8", "/", "8", "/" >>
         \o s1 \o << DigitChar(8 - Len(s1)) >>
         \o << " ", "w", " ", "-", " ", "-", " ", "0", " ", "1", "0" >>

\* FenOfCode with the lower-casing applied to sides[1 - color]
FenOfCode_LowerOther(code, color) ==
  LET weak   == substr_from(code, find(code, "K", 1))
      strong == substr_to(code, find(code, "K", 1))
      s0 == IF color = BLACK THEN ToLowerAll(weak) ELSE weak
      s1 == IF color = WHITE THEN ToLowerAll(strong) ELSE strong
  IN  s0 \o << DigitChar(8 - Len(s0)) >>
         \o << "/", "8", "/", "8", "/", "8", "/", "8", "/", "8", "/", "8", "/" >>
         \o s1 \o << DigitChar(8 - Len(s1)) >>
         \o << " ", "w", " ", "-", " ", "-", " ", "0", " ", "1", "0" >>

\* The FEN string key() forges for an endgame code and a colour
FenOfCode(code, color) ==
  LET weak   == substr_from(code, find(code, "K", 1))
      strong == substr_to(code, find(code, "K", 1))
      s0 == IF color = WHITE THEN ToLowerAll(weak) ELSE weak
      s1 == IF color = BLACK THEN ToLowerAll(strong) ELSE strong
  IN  s0 \o << DigitChar(8 - Len(s0)) >>
         \o << "/", "8", "/", "8", "/", "8", "/", "8", "/", "8", "/", "8", "/" >>
         \o s1 \o << DigitChar(8 - Len(s1)) >>
         \o << " ", "w", " ", "-", " ", "-", " ", "0", " ", "1", "0" >>

key(code, color) == FenMaterialKey(FenOfCode(code, color))

(***************************************************************************)
(* The registry.  Registered lists, in the constructor's order, the        *)
(* endgame type of each add<E>(code) and its code.                         *)
(***************************************************************************)
Registered ==
  << [type |-> "KPK",     code |-> << "K", "P", "K" >>],
     [type |-> "KNNK",    code |-> << "K", "N", "N", "K" >>],
     [type |-> "KBNK",    code |-> << "K", "B", "N", "K" >>],
     [type |-> "KRKP",    code |-> << "K", "R", "K", "P" >>],
     [type |-> "KRKB",    code |-> << "K", "R", "K", "B" >>],
     [type |-> "KRKN",    code |-> << "K", "R", "K", "N" >>],
     [type |-> "KQKP",    code |-> << "K", "Q", "K", "P" >>],
     [type |-> "KQKR",    code |-> << "K", "Q", "K", "R" >>],
     [type |-> "KNPK",    code |-> << "K", "N", "P", "K" >>],
     [type |-> "KNPKB",   code |-> << "K", "N", "P", "K", "B" >>],
     [type |-> "KRPKR",   code |-> << "K", "R", "P", "K", "R" >>],
     [type |-> "KRPKB",   code |-> << "K", "R", "P", "K", "B" >>],
     [type |-> "KBPKB",   code |-> << "K", "B", "P", "K", "B" >>],
     [type |-> "KBPKN",   code |-> << "K", "B", "P", "K", "N" >>],
     [type |-> "KBPPKB",  code |-> << "K", "B", "P", "P", "K", "B" >>],
     [type |-> "KRPPKRP", code |-> << "K", "R", "P", "P", "K", "R", "P" >> ] >>

NumRegistered == Len(Registered)

\* The endgame types whose operator() returns a Value (kept in m1); the others
\* return a ScaleFactor (kept in m2)
ValueTypes ==
  {"KXK", "KBNK", "KPK", "KRKP", "KRKB", "KRKN", "KQKP", "KQKR", "KNNK"}

\* new Endgame<E>(c)
Endgame(type, c) == [type |-> type, strongSide |-> c]

\* m[k] = e of a std::map: the binding for k is created or overwritten
MapPut(m, k, e) == [x \in (DOMAIN m) \cup {k} |-> IF x = k THEN e ELSE m[x]]

EmptyMap == [x \in {} |-> 0]

NoPos == [stm |-> -1]

NoFn == [type |-> "none"]

\* The second worker between two calls
NoCall == [phase |-> "idle", pos |-> NoPos, fn |-> NoFn, win |-> FALSE, ret |-> 0]

Init ==
  /\ pc = 0
  /\ m1 = EmptyMap
  /\ m2 = EmptyMap
  /\ phase = "idle"
  /\ pos = NoPos
  /\ fn = NoFn
  /\ bitbase = [asked |-> FALSE]
  /\ ret = 0
  /\ call2 = NoCall

\* The next add<E>(code) of Endgames::Endgames()
Add ==
  /\ pc < NumRegistered
  /\ LET e  == Registered[pc + 1]
         kw == key(e.code, WHITE)
         kb == key(e.code, BLACK)
     IN  IF e.type \in ValueTypes
         THEN /\ m1' = MapPut(MapPut(m1, kw, Endgame(e.type, WHITE)), kb, Endgame(e.type, BLACK))
              /\ m2' = m2
         ELSE /\ m2' = MapPut(MapPut(m2, kw, Endgame(e.type, WHITE)), kb, Endgame(e.type, BLACK))
              /\ m1' = m1
  /\ pc' = pc + 1
  /\ UNCHANGED <<phase, pos, fn, bitbase, ret, call2>>

\* Constructed once the value functions are registered, the scale-factor
\* functions being added while the workers already run
Constructed_Early == pc >= 8

Constructed == pc = NumRegistered

\* endgames.probe(key, ...): the binding of either map for the key, if any
Lookup(k) ==
  IF k \in DOMAIN m1 THEN m1[k]
  ELSE IF k \in DOMAIN m2 THEN m2[k]
  ELSE NoFn

(***************************************************************************)
(* Attacks and the lone king's legal moves (position.h, movegen.h), by the *)
(* rules of chess.                                                         *)
(***************************************************************************)
Sign(x) == IF x > 0 THEN 1 ELSE IF x < 0 THEN -1 ELSE 0

\* The squares strictly between a and b on a common rank, file or diagonal
between_bb(a, b) ==
  LET df == Sign(file_of(b) - file_of(a))
      dr == Sign(rank_of(b) - rank_of(a))
  IN  {make_square(file_of(a) + i * df, rank_of(a) + i * dr) : i \in 1..(distance(a, b) - 1)}

OnRookLine(a, b) == a # b /\ (file_of(a) = file_of(b) \/ rank_of(a) = rank_of(b))

OnBishopLine(a, b) == a # b /\ file_distance(a, b) = rank_distance(a, b)

\* Whether a piece of type pt and colour c on square s attacks square t when
\* the squares of occ are occupied
Attacks(pt, c, s, t, occ) ==
  CASE pt = "K" -> distance(s, t) = 1
    [] pt = "N" -> {file_distance(s, t), rank_distance(s, t)} = {1, 2}
    [] pt = "P" -> file_distance(s, t) = 1 /\ rank_of(t) - rank_of(s) = (IF c = WHITE THEN 1 ELSE -1)
    [] pt = "R" -> OnRookLine(s, t) /\ between_bb(s, t) \cap occ = {}
    [] pt = "B" -> OnBishopLine(s, t) /\ between_bb(s, t) \cap occ = {}
    [] pt = "Q" -> (OnRookLine(s, t) \/ OnBishopLine(s, t)) /\ between_bb(s, t) \cap occ = {}

\* pos.attackers_to(t) & pos.pieces(c): some piece of colour c, not standing on t, attacks t
AttackedBy(p, c, t) ==
  LET occ == occupied(p)
  IN  \E pt \in PieceTypes : \E i \in 1..Len(p.list[c][pt]) :
        p.list[c][pt][i] # t /\ Attacks(pt, c, p.list[c][pt][i], t, occ)

\* pos.checkers() of colour c's king
InCheck(p, c) == AttackedBy(p, Them(c), king_square(p, c))

\* MoveList<LEGAL>(pos).size() > 0 for a side to move that has only its king
\* and is not in check
LoneKingHasMove(p, c) ==
  \E t \in Square :
    /\ distance(king_square(p, c), t) = 1
    /\ ~AttackedBy(p, Them(c), t)

NumPieces(p) ==
  LET n(c) == count(p, c, "P") + count(p, c, "N") + count(p, c, "B")
            + count(p, c, "R") + count(p, c, "Q") + count(p, c, "K")
  IN  n(WHITE) + n(BLACK)

\* The squares of a position are those of a chess position: no two pieces on
\* one square, no pawn on a first or last rank, the kings apart, and the side
\* that has just moved not in check
LegalPosition(p) ==
  /\ distance(king_square(p, WHITE), king_square(p, BLACK)) > 1
  /\ Cardinality(occupied(p)) = NumPieces(p)
  /\ \A c \in Color : \A s \in pieces(p, c, "P") : rank_of(s) \in RANK_2..RANK_7
  /\ ~InCheck(p, Them(p.stm))

(***************************************************************************)
(* The square normaliser.                                                  *)
(***************************************************************************)
\* normalize testing the file of the square handed in, not the pawn's
normalize_OwnFile(p, strongSide, square) ==
  LET s1 == IF file_of(square) >= FILE_E THEN MirrorFile(square) ELSE square
  IN  IF strongSide = BLACK THEN FlipRank(s1) ELSE s1

\* normalize without the flip of the ranks for BLACK
normalize_KeepRank(p, strongSide, square) ==
  IF file_of(p.list[strongSide]["P"][1]) >= FILE_E THEN MirrorFile(square) ELSE square

\* Map the square as if strongSide is white and strongSide's only pawn is on
\* the left half of the board
normalize(p, strongSide, square) ==
  LET s1 == IF file_of(p.list[strongSide]["P"][1]) >= FILE_E THEN MirrorFile(square) ELSE square
  IN  IF strongSide = BLACK THEN FlipRank(s1) ELSE s1

(***************************************************************************)
(* Value evaluators: Endgame<E>::operator()(pos) for a bound strongSide.   *)
(***************************************************************************)
\* Signed without the negation for the weak side to move
Signed_Never(p, strongSide, result) == result

\* The final "return strongSide == pos.side_to_move() ? result : -result"
Signed(p, strongSide, result) ==
  IF strongSide = side_to_move(p) THEN result ELSE -result

KXK_pre(p, strongSide) ==
  /\ verify_material(p, Them(strongSide), VALUE_ZERO, 0)
  /\ ~InCheck(p, side_to_move(p))

\* KXK_known_win with "||" between bishop and knight
KXK_known_win_AnyMinor(p, strongSide) ==
  \/ count(p, strongSide, "Q") > 0
  \/ count(p, strongSide, "R") > 0
  \/ (count(p, strongSide, "B") > 0 \/ count(p, strongSide, "N") > 0)
  \/ bishop_pair(p, strongSide)

KXK_known_win(p, strongSide) ==
  \/ count(p, strongSide, "Q") > 0
  \/ count(p, strongSide, "R") > 0
  \/ (count(p, strongSide, "B") > 0 /\ count(p, strongSide, "N") > 0)
  \/ bishop_pair(p, strongSide)

KXK_result(p, strongSide) ==
    non_pawn_material(p, strongSide)
  + count(p, strongSide, "P") * PawnValueEg
  + PushToEdges(king_square(p, Them(strongSide)))
  + PushClose(distance(king_square(p, strongSide), king_square(p, Them(strongSide))))
  + (IF KXK_known_win(p, strongSide) THEN VALUE_KNOWN_WIN ELSE 0)

KXK(p, strongSide) ==
  IF side_to_move(p) = Them(strongSide) /\ ~LoneKingHasMove(p, Them(strongSide))
  THEN VALUE_DRAW
  ELSE Signed(p, strongSide, KXK_result(p, strongSide))

KBNK_pre(p, strongSide) ==
  /\ verify_material(p, strongSide, KnightValueMg + BishopValueMg, 0)
  /\ verify_material(p, Them(strongSide), VALUE_ZERO, 0)

\* KBNK_result with the kings never flipped
KBNK_result_NoFlip(p, strongSide) ==
  VALUE_KNOWN_WIN
    + PushClose(distance(king_square(p, strongSide), king_square(p, Them(strongSide))))
    + PushToCorners(king_square(p, Them(strongSide)))

KBNK_result(p, strongSide) ==
  LET flip == opposite_colors(p.list[strongSide]["B"][1], SQ_A1)
      winnerKingSquare == IF flip THEN FlipRank(king_square(p, strongSide))
                                  ELSE king_square(p, strongSide)
      loserKingSquare  == IF flip THEN FlipRank(king_square(p, Them(strongSide)))
                                  ELSE king_square(p, Them(strongSide))
  IN  VALUE_KNOWN_WIN
    + PushClose(distance(winnerKingSquare, loserKingSquare))
    + PushToCorners(loserKingSquare)

KBNK(p, strongSide) == Signed(p, strongSide, KBNK_result(p, strongSide))

KPK_pre(p, strongSide) ==
  /\ verify_material(p, strongSide, VALUE_ZERO, 1)
  /\ verify_material(p, Them(strongSide), VALUE_ZERO, 0)

\* The arguments of Bitbases::probe_kpk(whiteKingSquare, pawnSquare, blackKingSquare, us)
\* and its answer
KPK_probe(p, strongSide, win) ==
  [asked |-> TRUE,
   wksq  |-> normalize(p, strongSide, king_square(p, strongSide)),
   psq   |-> normalize(p, strongSide, p.list[strongSide]["P"][1]),
   bksq  |-> normalize(p, strongSide, king_square(p, Them(strongSide))),
   us    |-> IF strongSide = side_to_move(p) THEN WHITE ELSE BLACK,
   win   |-> win]

\* KPK rewarding the rank of the pawn's own square, not of the normalised one
KPK_RawRank(p, strongSide, win) ==
  IF ~win THEN VALUE_DRAW
  ELSE Signed(p, strongSide,
              VALUE_KNOWN_WIN + PawnValueEg + rank_of(p.list[strongSide]["P"][1]))

KPK(p, strongSide, win) ==
  IF ~win THEN VALUE_DRAW
  ELSE Signed(p, strongSide,
              VALUE_KNOWN_WIN + PawnValueEg
            + rank_of(normalize(p, strongSide, p.list[strongSide]["P"][1])))

KRKP_pre(p, strongSide) ==
  /\ verify_material(p, strongSide, RookValueMg, 0)
  /\ verify_material(p, Them(strongSide), VALUE_ZERO, 1)

\* The rule of the cascade that decides (1..4)
\* KRKP_rule with thresholds that ignore the side to move
KRKP_rule_NoTempo(p, strongSide) ==
  LET weakSide == Them(strongSide)
      whiteKingSquare == relative_square(strongSide, king_square(p, strongSide))
      blackKingSquare == relative_square(strongSide, king_square(p, weakSide))
      rookSquare == relative_square(strongSide, p.list[strongSide]["R"][1])
      pawnSquare == relative_square(strongSide, p.list[weakSide]["P"][1])
  IN  IF whiteKingSquare < pawnSquare /\ file_of(whiteKingSquare) = file_of(pawnSquare)
      THEN 1
      ELSE IF /\ distance(blackKingSquare, pawnSquare) >= 3
              /\ distance(blackKingSquare, rookSquare) >= 3
      THEN 2
      ELSE IF /\ rank_of(blackKingSquare) <= RANK_3
              /\ distance(blackKingSquare, pawnSquare) = 1
              /\ rank_of(whiteKingSquare) >= RANK_4
              /\ distance(whiteKingSquare, pawnSquare) > 2
      THEN 3
      ELSE 4

KRKP_rule(p, strongSide) ==
  LET weakSide == Them(strongSide)
      whiteKingSquare == relative_square(strongSide, king_square(p, strongSide))
      blackKingSquare == relative_square(strongSide, king_square(p, weakSide))
      rookSquare == relative_square(strongSide, p.list[strongSide]["R"][1])
      pawnSquare == relative_square(strongSide, p.list[weakSide]["P"][1])
  IN  IF whiteKingSquare < pawnSquare /\ file_of(whiteKingSquare) = file_of(pawnSquare)
      THEN 1
      ELSE IF /\ distance(blackKingSquare, pawnSquare) >= 3 + (IF side_to_move(p) = weakSide THEN 1 ELSE 0)
              /\ distance(blackKingSquare, rookSquare) >= 3
      THEN 2
      ELSE IF /\ rank_of(blackKingSquare) <= RANK_3
              /\ distance(blackKingSquare, pawnSquare) = 1
              /\ rank_of(whiteKingSquare) >= RANK_4
              /\ distance(whiteKingSquare, pawnSquare) > 2 + (IF side_to_move(p) = strongSide THEN 1 ELSE 0)
      THEN 3
      ELSE 4

\* KRKP_result with the drawish score falling twice as fast
KRKP_result_Steep(p, strongSide) ==
  LET weakSide == Them(strongSide)
      whiteKingSquare == relative_square(strongSide, king_square(p, strongSide))
      blackKingSquare == relative_square(strongSide, king_square(p, weakSide))
      pawnSquare == relative_square(strongSide, p.list[weakSide]["P"][1])
      queeningSquare == make_square(file_of(pawnSquare), RANK_1)
      rule == KRKP_rule(p, strongSide)
  IN  CASE rule \in {1, 2} -> RookValueEg - distance(whiteKingSquare, pawnSquare)
        [] rule = 3 -> 80 - 16 * distance(whiteKingSquare, pawnSquare)
        [] rule = 4 -> 200 - 8 * (  distance(whiteKingSquare, pawnSquare + DELTA_S)
                                  - distance(blackKingSquare, pawnSquare + DELTA_S)
                                  - distance(pawnSquare, queeningSquare))

KRKP_result(p, strongSide) ==
  LET weakSide == Them(strongSide)
      whiteKingSquare == relative_square(strongSide, king_square(p, strongSide))
      blackKingSquare == relative_square(strongSide, king_square(p, weakSide))
      pawnSquare == relative_square(strongSide, p.list[weakSide]["P"][1])
      queeningSquare == make_square(file_of(pawnSquare), RANK_1)
      rule == KRKP_rule(p, strongSide)
  IN  CASE rule \in {1, 2} -> RookValueEg - distance(whiteKingSquare, pawnSquare)
        [] rule = 3 -> 80 - 8 * distance(whiteKingSquare, pawnSquare)
        [] rule = 4 -> 200 - 8 * (  distance(whiteKingSquare, pawnSquare + DELTA_S)
                                  - distance(blackKingSquare, pawnSquare + DELTA_S)
                                  - distance(pawnSquare, queeningSquare))

KRKP(p, strongSide) == Signed(p, strongSide, KRKP_result(p, strongSide))

KRKB_pre(p, strongSide) ==
  /\ verify_material(p, strongSide, RookValueMg, 0)
  /\ verify_material(p, Them(strongSide), BishopValueMg, 0)

KRKB(p, strongSide) ==
  Signed(p, strongSide, PushToEdges(king_square(p, Them(strongSide))))

KRKN_pre(p, strongSide) ==
  /\ verify_material(p, strongSide, RookValueMg, 0)
  /\ verify_material(p, Them(strongSide), KnightValueMg, 0)

KRKN(p, strongSide) ==
  LET blackKingSquare == king_square(p, Them(strongSide))
      knightSquare == p.list[Them(strongSide)]["N"][1]
  IN  Signed(p, strongSide,
             PushToEdges(blackKingSquare) + PushAway(distance(blackKingSquare, knightSquare)))

KQKP_pre(p, strongSide) ==
  /\ verify_material(p, strongSide, QueenValueMg, 0)
  /\ verify_material(p, Them(strongSide), VALUE_ZERO, 1)

\* KQKP_result with the exception kept to the a-file and the h-file
KQKP_result_OuterFiles(p, strongSide) ==
  LET weakSide == Them(strongSide)
      pawnSquare == p.list[weakSide]["P"][1]
  IN  PushClose(distance(king_square(p, strongSide), king_square(p, weakSide)))
    + (IF \/ relative_rank(weakSide, pawnSquare) # RANK_7
          \/ distance(king_square(p, weakSide), pawnSquare) # 1
          \/ file_of(pawnSquare) \notin {FILE_A, FILE_H}
       THEN QueenValueEg - PawnValueEg
       ELSE 0)

KQKP_result(p, strongSide) ==
  LET weakSide == Them(strongSide)
      winnerKingSquare == king_square(p, strongSide)
      loserKingSquare == king_square(p, weakSide)
      pawnSquare == p.list[weakSide]["P"][1]
  IN  PushClose(distance(winnerKingSquare, loserKingSquare))
    + (IF \/ relative_rank(weakSide, pawnSquare) # RANK_7
          \/ distance(loserKingSquare, pawnSquare) # 1
          \/ file_of(pawnSquare) \notin {FILE_A, FILE_C, FILE_F, FILE_H}
       THEN QueenValueEg - PawnValueEg
       ELSE 0)

KQKP(p, strongSide) == Signed(p, strongSide, KQKP_result(p, strongSide))

KQKR_pre(p, strongSide) ==
  /\ verify_material(p, strongSide, QueenValueMg, 0)
  /\ verify_material(p, Them(strongSide), RookValueMg, 0)

KQKR_result(p, strongSide) ==
    QueenValueEg - RookValueEg
  + PushToEdges(king_square(p, Them(strongSide)))
  + PushClose(distance(king_square(p, strongSide), king_square(p, Them(strongSide))))

KQKR(p, strongSide) == Signed(p, strongSide, KQKR_result(p, strongSide))

KNNK(p, strongSide) == VALUE_DRAW

(***************************************************************************)
(* Scale-factor evaluators: Endgame<E>::operator()(pos) for a bound        *)
(* strongSide.                                                             *)
(***************************************************************************)
\* pos.pawn_passed(c, s): no pawn of the other colour in front of s on its
\* file or on an adjacent file
pawn_passed(p, c, s) ==
  \A t \in pieces(p, Them(c), "P") :
    ~(file_distance(t, s) <= 1 /\ relative_rank(c, t) > relative_rank(c, s))

KRPKR_pre(p, strongSide) ==
  /\ verify_material(p, strongSide, RookValueMg, 1)
  /\ verify_material(p, Them(strongSide), RookValueMg, 0)

\* KRPKR_rule with the tempo left out of the rook test of rule 6
KRPKR_rule_NoTempo(p, strongSide) ==
  LET weakSide == Them(strongSide)
      whiteKingSquare == normalize(p, strongSide, king_square(p, strongSide))
      blackKingSquare == normalize(p, strongSide, king_square(p, weakSide))
      whiteRookSquare == normalize(p, strongSide, p.list[strongSide]["R"][1])
      whitePawnSquare == normalize(p, strongSide, p.list[strongSide]["P"][1])
      blackRookSquare == normalize(p, strongSide, p.list[weakSide]["R"][1])
      file == file_of(whitePawnSquare)
      rank == rank_of(whitePawnSquare)
      queeningSquare == make_square(file, RANK_8)
      tempo == IF side_to_move(p) = strongSide THEN 1 ELSE 0
  IN  IF /\ rank <= RANK_5
         /\ distance(blackKingSquare, queeningSquare) <= 1
         /\ whiteKingSquare <= SQ_H5
         /\ (rank_of(blackRookSquare) = RANK_6 \/ (rank <= RANK_3 /\ rank_of(whiteRookSquare) # RANK_6))
      THEN 1
      ELSE IF /\ rank = RANK_6
              /\ distance(blackKingSquare, queeningSquare) <= 1
              /\ rank_of(whiteKingSquare) + tempo <= RANK_6
              /\ (rank_of(blackRookSquare) = RANK_1 \/ (tempo = 0 /\ Abs(file_of(blackRookSquare) - file) >= 3))
      THEN 2
      ELSE IF /\ rank >= RANK_6
              /\ blackKingSquare = queeningSquare
              /\ rank_of(blackRookSquare) = RANK_1
              /\ (tempo = 0 \/ distance(whiteKingSquare, whitePawnSquare) >= 2)
      THEN 3
      ELSE IF /\ whitePawnSquare = SQ_A7
              /\ whiteRookSquare = SQ_A8
              /\ (blackKingSquare = SQ_H7 \/ blackKingSquare = SQ_G7)
              /\ file_of(blackRookSquare) = FILE_A
              /\ (rank_of(blackRookSquare) <= RANK_3 \/ file_of(whiteKingSquare) >= FILE_D \/ rank_of(whiteKingSquare) <= RANK_5)
      THEN 4
      ELSE IF /\ rank <= RANK_5
              /\ blackKingSquare = whitePawnSquare + DELTA_N
              /\ distance(whiteKingSquare, whitePawnSquare) - tempo >= 2
              /\ distance(whiteKingSquare, blackRookSquare) - tempo >= 2
      THEN 5
      ELSE IF /\ rank = RANK_7
              /\ file # FILE_A
              /\ file_of(whiteRookSquare) = file
              /\ whiteRookSquare # queeningSquare
              /\ distance(whiteKingSquare, queeningSquare) < distance(blackKingSquare, queeningSquare) - 2 + tempo
              /\ distance(whiteKingSquare, queeningSquare) < distance(blackKingSquare, whiteRookSquare)
      THEN 6
      ELSE IF /\ file # FILE_A
              /\ file_of(whiteRookSquare) = file
              /\ whiteRookSquare < whitePawnSquare
              /\ distance(whiteKingSquare, queeningSquare) < distance(blackKingSquare, queeningSquare) - 2 + tempo
              /\ distance(whiteKingSquare, whitePawnSquare + DELTA_N) < distance(blackKingSquare, whitePawnSquare + DELTA_N) - 2 + tempo
              /\ \/ distance(blackKingSquare, whiteRookSquare) + tempo >= 3
                 \/ /\ distance(whiteKingSquare, queeningSquare) < distance(blackKingSquare, whiteRookSquare) + tempo
                    /\ distance(whiteKingSquare, whitePawnSquare + DELTA_N) < distance(blackKingSquare, whiteRookSquare) + tempo
      THEN 7
      ELSE IF rank <= RANK_4 /\ blackKingSquare > whitePawnSquare
      THEN IF file_of(blackKingSquare) = file_of(whitePawnSquare)
           THEN 8
           ELSE IF /\ file_distance(blackKingSquare, whitePawnSquare) = 1
                   /\ distance(whiteKingSquare, blackKingSquare) > 2
           THEN 9
           ELSE 10
      ELSE 10

\* The "if" of the cascade whose return decides (1..9), or 10 for the final
\* return SCALE_FACTOR_NONE
KRPKR_rule(p, strongSide) ==
  LET weakSide == Them(strongSide)
      whiteKingSquare == normalize(p, strongSide, king_square(p, strongSide))
      blackKingSquare == normalize(p, strongSide, king_square(p, weakSide))
      whiteRookSquare == normalize(p, strongSide, p.list[strongSide]["R"][1])
      whitePawnSquare == normalize(p, strongSide, p.list[strongSide]["P"][1])
      blackRookSquare == normalize(p, strongSide, p.list[weakSide]["R"][1])
      file == file_of(whitePawnSquare)
      rank == rank_of(whitePawnSquare)
      queeningSquare == make_square(file, RANK_8)
      tempo == IF side_to_move(p) = strongSide THEN 1 ELSE 0
  IN  IF /\ rank <= RANK_5
         /\ distance(blackKingSquare, queeningSquare) <= 1
         /\ whiteKingSquare <= SQ_H5
         /\ (rank_of(blackRookSquare) = RANK_6 \/ (rank <= RANK_3 /\ rank_of(whiteRookSquare) # RANK_6))
      THEN 1
      ELSE IF /\ rank = RANK_6
              /\ distance(blackKingSquare, queeningSquare) <= 1
              /\ rank_of(whiteKingSquare) + tempo <= RANK_6
              /\ (rank_of(blackRookSquare) = RANK_1 \/ (tempo = 0 /\ Abs(file_of(blackRookSquare) - file) >= 3))
      THEN 2
      ELSE IF /\ rank >= RANK_6
              /\ blackKingSquare = queeningSquare
              /\ rank_of(blackRookSquare) = RANK_1
              /\ (tempo = 0 \/ distance(whiteKingSquare, whitePawnSquare) >= 2)
      THEN 3
      ELSE IF /\ whitePawnSquare = SQ_A7
              /\ whiteRookSquare = SQ_A8
              /\ (blackKingSquare = SQ_H7 \/ blackKingSquare = SQ_G7)
              /\ file_of(blackRookSquare) = FILE_A
              /\ (rank_of(blackRookSquare) <= RANK_3 \/ file_of(whiteKingSquare) >= FILE_D \/ rank_of(whiteKingSquare) <= RANK_5)
      THEN 4
      ELSE IF /\ rank <= RANK_5
              /\ blackKingSquare = whitePawnSquare + DELTA_N
              /\ distance(whiteKingSquare, whitePawnSquare) - tempo >= 2
              /\ distance(whiteKingSquare, blackRookSquare) - tempo >= 2
      THEN 5
      ELSE IF /\ rank = RANK_7
              /\ file # FILE_A
              /\ file_of(whiteRookSquare) = file
              /\ whiteRookSquare # queeningSquare
              /\ distance(whiteKingSquare, queeningSquare) < distance(blackKingSquare, queeningSquare) - 2 + tempo
              /\ distance(whiteKingSquare, queeningSquare) < distance(blackKingSquare, whiteRookSquare) + tempo
      THEN 6
      ELSE IF /\ file # FILE_A
              /\ file_of(whiteRookSquare) = file
              /\ whiteRookSquare < whitePawnSquare
              /\ distance(whiteKingSquare, queeningSquare) < distance(blackKingSquare, queeningSquare) - 2 + tempo
              /\ distance(whiteKingSquare, whitePawnSquare + DELTA_N) < distance(blackKingSquare, whitePawnSquare + DELTA_N) - 2 + tempo
              /\ \/ distance(blackKingSquare, whiteRookSquare) + tempo >= 3
                 \/ /\ distance(whiteKingSquare, queeningSquare) < distance(blackKingSquare, whiteRookSquare) + tempo
                    /\ distance(whiteKingSquare, whitePawnSquare + DELTA_N) < distance(blackKingSquare, whiteRookSquare) + tempo
      THEN 7
      ELSE IF rank <= RANK_4 /\ blackKingSquare > whitePawnSquare
      THEN IF file_of(blackKingSquare) = file_of(whitePawnSquare)
           THEN 8
           ELSE IF /\ file_distance(blackKingSquare, whitePawnSquare) = 1
                   /\ distance(whiteKingSquare, blackKingSquare) > 2
           THEN 9
           ELSE 10
      ELSE 10

KRPKR(p, strongSide) ==
  LET weakSide == Them(strongSide)
      whiteKingSquare == normalize(p, strongSide, king_square(p, strongSide))
      blackKingSquare == normalize(p, strongSide, king_square(p, weakSide))
      whitePawnSquare == normalize(p, strongSide, p.list[strongSide]["P"][1])
      queeningSquare == make_square(file_of(whitePawnSquare), RANK_8)
      rule == KRPKR_rule(p, strongSide)
  IN  CASE rule \in 1..5 -> SCALE_FACTOR_DRAW
        [] rule = 6 -> SCALE_FACTOR_MAX - 2 * distance(whiteKingSquare, queeningSquare)
        [] rule = 7 -> SCALE_FACTOR_MAX - 8 * distance(whitePawnSquare, queeningSquare)
                                        - 2 * distance(whiteKingSquare, queeningSquare)
        [] rule = 8 -> 10
        [] rule = 9 -> 24 - 2 * distance(whiteKingSquare, blackKingSquare)
        [] rule = 10 -> SCALE_FACTOR_NONE

KRPPKRP_pre(p, strongSide) ==
  /\ verify_material(p, strongSide, RookValueMg, 2)
  /\ verify_material(p, Them(strongSide), RookValueMg, 1)

\* The value standing for the failure of "default: assert(false)"
AssertFailed == -1

\* KRPPKRP_rank taking the smaller of the two relative ranks
KRPPKRP_rank_Min(p, strongSide) ==
  Min(relative_rank(strongSide, p.list[strongSide]["P"][1]),
      relative_rank(strongSide, p.list[strongSide]["P"][2]))

\* Rank rank = std::max(relative_rank(...), relative_rank(...))
KRPPKRP_rank(p, strongSide) ==
  Max(relative_rank(strongSide, p.list[strongSide]["P"][1]),
      relative_rank(strongSide, p.list[strongSide]["P"][2]))

\* Whether the call gets to "switch (rank)"
KRPPKRP_switch(p, strongSide) ==
  LET whitePawnSquare1 == p.list[strongSide]["P"][1]
      whitePawnSquare2 == p.list[strongSide]["P"][2]
      blackKingSquare == king_square(p, Them(strongSide))
  IN  /\ ~(pawn_passed(p, strongSide, whitePawnSquare1) \/ pawn_passed(p, strongSide, whitePawnSquare2))
      /\ file_distance(blackKingSquare, whitePawnSquare1) <= 1
      /\ file_distance(blackKingSquare, whitePawnSquare2) <= 1
      /\ relative_rank(strongSide, blackKingSquare) > KRPPKRP_rank(p, strongSide)

KRPPKRP(p, strongSide) ==
  LET rank == KRPPKRP_rank(p, strongSide)
  IN  IF KRPPKRP_switch(p, strongSide)
      THEN CASE rank = RANK_2 -> 10
             [] rank = RANK_3 -> 10
             [] rank = RANK_4 -> 15
             [] rank = RANK_5 -> 20
             [] rank = RANK_6 -> 40
             [] OTHER -> AssertFailed
      ELSE SCALE_FACTOR_NONE

KBPPKB_pre(p, strongSide) ==
  /\ verify_material(p, strongSide, BishopValueMg, 2)
  /\ verify_material(p, Them(strongSide), BishopValueMg, 0)

\* pos.attacks_from<BISHOP>(s) & pos.pieces(c, BISHOP)
BishopAttackedFrom(p, s, c) ==
  \E b \in pieces(p, c, "B") : b # s /\ Attacks("B", c, s, b, occupied(p))

\* KBPPKB_sameFile with the king required strictly beyond the block square
KBPPKB_sameFile_Beyond(p, strongSide, blockSquare1) ==
  LET kingSquare == king_square(p, Them(strongSide))
      whiteBishopSquare == p.list[strongSide]["B"][1]
  IN  IF /\ file_of(kingSquare) = file_of(blockSquare1)
         /\ relative_rank(strongSide, kingSquare) > relative_rank(strongSide, blockSquare1)
         /\ opposite_colors(kingSquare, whiteBishopSquare)
      THEN SCALE_FACTOR_DRAW
      ELSE SCALE_FACTOR_NONE

\* "case 0" of the switch: both pawns on the same file
KBPPKB_sameFile(p, strongSide, blockSquare1) ==
  LET kingSquare == king_square(p, Them(strongSide))
      whiteBishopSquare == p.list[strongSide]["B"][1]
  IN  IF /\ file_of(kingSquare) = file_of(blockSquare1)
         /\ relative_rank(strongSide, kingSquare) >= relative_rank(strongSide, blockSquare1)
         /\ opposite_colors(kingSquare, whiteBishopSquare)
      THEN SCALE_FACTOR_DRAW
      ELSE SCALE_FACTOR_NONE

\* "case 1" of the switch: the pawns on adjacent files
KBPPKB_adjacentFiles(p, strongSide, blockSquare1, blockSquare2) ==
  LET weakSide == Them(strongSide)
      kingSquare == king_square(p, weakSide)
      whiteBishopSquare == p.list[strongSide]["B"][1]
      blackBishopSquare == p.list[weakSide]["B"][1]
      rank1 == rank_of(p.list[strongSide]["P"][1])
      rank2 == rank_of(p.list[strongSide]["P"][2])
  IN  IF /\ kingSquare = blockSquare1
         /\ opposite_colors(kingSquare, whiteBishopSquare)
         /\ \/ blackBishopSquare = blockSquare2
            \/ BishopAttackedFrom(p, blockSquare2, weakSide)
            \/ Abs(rank1 - rank2) >= 2
      THEN SCALE_FACTOR_DRAW
      ELSE IF /\ kingSquare = blockSquare2
              /\ opposite_colors(kingSquare, whiteBishopSquare)
              /\ \/ blackBishopSquare = blockSquare1
                 \/ BishopAttackedFrom(p, blockSquare1, weakSide)
      THEN SCALE_FACTOR_DRAW
      ELSE SCALE_FACTOR_NONE

KBPPKB(p, strongSide) ==
  LET weakSide == Them(strongSide)
      whiteBishopSquare == p.list[strongSide]["B"][1]
      blackBishopSquare == p.list[weakSide]["B"][1]
      pawnSquare1 == p.list[strongSide]["P"][1]
      pawnSquare2 == p.list[strongSide]["P"][2]
      first == relative_rank(strongSide, pawnSquare1) > relative_rank(strongSide, pawnSquare2)
      blockSquare1 == IF first THEN pawnSquare1 + pawn_push(strongSide)
                               ELSE pawnSquare2 + pawn_push(strongSide)
      blockSquare2 == IF first THEN make_square(file_of(pawnSquare2), rank_of(pawnSquare1))
                               ELSE make_square(file_of(pawnSquare1), rank_of(pawnSquare2))
  IN  IF ~opposite_colors(whiteBishopSquare, blackBishopSquare)
      THEN SCALE_FACTOR_NONE
      ELSE CASE file_distance(pawnSquare1, pawnSquare2) = 0 ->
                  KBPPKB_sameFile(p, strongSide, blockSquare1)
             [] file_distance(pawnSquare1, pawnSquare2) = 1 ->
                  KBPPKB_adjacentFiles(p, strongSide, blockSquare1, blockSquare2)
             [] OTHER -> SCALE_FACTOR_NONE

\* forward_bb(c, s): the squares in front of s on its file, seen from colour c
forward_bb(c, s) ==
  {t \in Square : file_of(t) = file_of(s) /\ relative_rank(c, t) > relative_rank(c, s)}

\* in_front_bb(c, r): the squares of the ranks in front of rank r, seen from colour c
in_front_bb(c, r) ==
  {t \in Square : IF c = WHITE THEN rank_of(t) > r ELSE rank_of(t) < r}

\* backmost_sq(c, b): the square of b closest to colour c's home rank (lsb for
\* WHITE, msb for BLACK)
backmost_sq(c, b) ==
  IF c = WHITE THEN CHOOSE t \in b : \A u \in b : t <= u
               ELSE CHOOSE t \in b : \A u \in b : t >= u

\* pos.attacks_from<BISHOP>(s): the squares a bishop on s attacks in position p
BishopAttacks(p, s) == {t \in Square : Attacks("B", WHITE, s, t, occupied(p))}

KBPsK(p, strongSide) ==
  LET weakSide == Them(strongSide)
      pawns == pieces(p, strongSide, "P")
      pawnFile == file_of(p.list[strongSide]["P"][1])
      bishopSquare == p.list[strongSide]["B"][1]
      queeningSquare == relative_square(strongSide, make_square(pawnFile, RANK_8))
      kingSquare == king_square(p, weakSide)
      strongKingSquare == king_square(p, strongSide)
      allPawns == pieces(p, WHITE, "P") \cup pieces(p, BLACK, "P")
      weakPawnSquare == backmost_sq(weakSide, pieces(p, weakSide, "P"))
      strongKingDistance == distance(weakPawnSquare, strongKingSquare)
      weakKingDistance == distance(weakPawnSquare, kingSquare)
  IN  IF /\ pawnFile \in {FILE_A, FILE_H}
         /\ \A t \in pawns : file_of(t) = pawnFile
         /\ opposite_colors(queeningSquare, bishopSquare)
         /\ distance(queeningSquare, kingSquare) <= 1
      THEN SCALE_FACTOR_DRAW
      ELSE IF /\ pawnFile \in {FILE_B, FILE_G}
              /\ \A t \in allPawns : file_of(t) = pawnFile
              /\ non_pawn_material(p, weakSide) = 0
              /\ count(p, weakSide, "P") >= 1
              /\ relative_rank(strongSide, weakPawnSquare) = RANK_7
              /\ (weakPawnSquare + pawn_push(weakSide)) \in pawns
              /\ (opposite_colors(bishopSquare, weakPawnSquare) \/ count(p, strongSide, "P") = 1)
              /\ relative_rank(strongSide, kingSquare) >= RANK_7
              /\ weakKingDistance <= 2
              /\ weakKingDistance <= strongKingDistance
      THEN SCALE_FACTOR_DRAW
      ELSE SCALE_FACTOR_NONE

KQKRPs(p, strongSide) ==
  LET weakSide == Them(strongSide)
      kingSquare == king_square(p, weakSide)
      rookSquare == p.list[weakSide]["R"][1]
  IN  IF /\ relative_rank(weakSide, kingSquare) <= RANK_2
         /\ relative_rank(weakSide, king_square(p, strongSide)) >= RANK_4
         /\ relative_rank(weakSide, rookSquare) = RANK_3
         /\ \E t \in pieces(p, weakSide, "P") :
              /\ distance(kingSquare, t) = 1
              /\ Attacks("P", strongSide, rookSquare, t, {})
      THEN SCALE_FACTOR_DRAW
      ELSE SCALE_FACTOR_NONE

KRPKB(p, strongSide) ==
  LET weakSide == Them(strongSide)
      kingSquare == king_square(p, weakSide)
      bishopSquare == p.list[weakSide]["B"][1]
      pawnSquare == p.list[strongSide]["P"][1]
      rank == relative_rank(strongSide, pawnSquare)
      push == pawn_push(strongSide)
      kingDistance == distance(pawnSquare + 3 * push, kingSquare)
  IN  IF \E t \in pieces(p, WHITE, "P") \cup pieces(p, BLACK, "P") : file_of(t) \in {FILE_A, FILE_H}
      THEN IF rank = RANK_5 /\ ~opposite_colors(bishopSquare, pawnSquare)
           THEN IF /\ kingDistance <= 2
                   /\ ~(kingDistance = 0 /\ kingSquare = king_square(p, strongSide) + 2 * push)
                THEN 24
                ELSE 48
           ELSE IF /\ rank = RANK_6
                   /\ distance(pawnSquare + 2 * push, kingSquare) <= 1
                   /\ OnBishopLine(bishopSquare, pawnSquare + push)
                   /\ file_distance(bishopSquare, pawnSquare) >= 2
           THEN 8
           ELSE SCALE_FACTOR_NONE
      ELSE SCALE_FACTOR_NONE

KPsK(p, strongSide) ==
  LET weakSide == Them(strongSide)
      kingSquare == king_square(p, weakSide)
      pawns == pieces(p, strongSide, "P")
      pawnSquare == p.list[strongSide]["P"][1]
  IN  IF /\ pawns \subseteq in_front_bb(weakSide, rank_of(kingSquare))
         /\ ~(    (\E t \in pawns : file_of(t) # FILE_A)
              /\ (\E t \in pawns : file_of(t) # FILE_H))
         /\ file_distance(kingSquare, pawnSquare) <= 1
      THEN SCALE_FACTOR_DRAW
      ELSE SCALE_FACTOR_NONE

\* "Case 1: Defending king blocks the pawn, and cannot be driven away"
KBPKB_case1(p, strongSide) ==
  LET pawnSquare == p.list[strongSide]["P"][1]
      strongBishopSquare == p.list[strongSide]["B"][1]
      weakKingSquare == king_square(p, Them(strongSide))
  IN  /\ file_of(weakKingSquare) = file_of(pawnSquare)
      /\ relative_rank(strongSide, pawnSquare) < relative_rank(strongSide, weakKingSquare)
      /\ \/ opposite_colors(weakKingSquare, strongBishopSquare)
         \/ relative_rank(strongSide, weakKingSquare) <= RANK_6

KBPKB(p, strongSide) ==
  LET weakSide == Them(strongSide)
      pawnSquare == p.list[strongSide]["P"][1]
      strongBishopSquare == p.list[strongSide]["B"][1]
      weakBishopSquare == p.list[weakSide]["B"][1]
      path == forward_bb(strongSide, pawnSquare)
  IN  IF KBPKB_case1(p, strongSide)
      THEN SCALE_FACTOR_DRAW
      ELSE IF opposite_colors(strongBishopSquare, weakBishopSquare)
      THEN IF relative_rank(strongSide, pawnSquare) <= RANK_5
           THEN SCALE_FACTOR_DRAW
           ELSE IF path \cap pieces(p, weakSide, "K") # {}
           THEN SCALE_FACTOR_DRAW
           ELSE IF /\ BishopAttacks(p, weakBishopSquare) \cap path # {}
                   /\ distance(weakBishopSquare, pawnSquare) >= 3
           THEN SCALE_FACTOR_DRAW
           ELSE SCALE_FACTOR_NONE
      ELSE SCALE_FACTOR_NONE

\* KBPKN with the king's rank tested against RANK_5
KBPKN_Rank5(p, strongSide) ==
  LET pawnSquare == p.list[strongSide]["P"][1]
      strongBishopSquare == p.list[strongSide]["B"][1]
      weakKingSquare == king_square(p, Them(strongSide))
  IN  IF /\ file_of(weakKingSquare) = file_of(pawnSquare)
         /\ relative_rank(strongSide, pawnSquare) < relative_rank(strongSide, weakKingSquare)
         /\ \/ opposite_colors(weakKingSquare, strongBishopSquare)
            \/ relative_rank(strongSide, weakKingSquare) <= RANK_5
      THEN SCALE_FACTOR_DRAW
      ELSE SCALE_FACTOR_NONE

KBPKN(p, strongSide) ==
  LET pawnSquare == p.list[strongSide]["P"][1]
      strongBishopSquare == p.list[strongSide]["B"][1]
      weakKingSquare == king_square(p, Them(strongSide))
  IN  IF /\ file_of(weakKingSquare) = file_of(pawnSquare)
         /\ relative_rank(strongSide, pawnSquare) < relative_rank(strongSide, weakKingSquare)
         /\ \/ opposite_colors(weakKingSquare, strongBishopSquare)
            \/ relative_rank(strongSide, weakKingSquare) <= RANK_6
      THEN SCALE_FACTOR_DRAW
      ELSE SCALE_FACTOR_NONE

KNPK(p, strongSide) ==
  LET pawnSquare == normalize(p, strongSide, p.list[strongSide]["P"][1])
      weakKingSquare == normalize(p, strongSide, king_square(p, Them(strongSide)))
  IN  IF pawnSquare = SQ_A7 /\ distance(SQ_A8, weakKingSquare) <= 1
      THEN SCALE_FACTOR_DRAW
      ELSE SCALE_FACTOR_NONE

\* KNPKB returning the distance with its sign changed
KNPKB_Negated(p, strongSide) ==
  LET weakSide == Them(strongSide)
      pawnSquare == p.list[strongSide]["P"][1]
      bishopSquare == p.list[weakSide]["B"][1]
      weakKingSquare == king_square(p, weakSide)
  IN  IF forward_bb(strongSide, pawnSquare) \cap BishopAttacks(p, bishopSquare) # {}
      THEN 0 - distance(weakKingSquare, pawnSquare)
      ELSE SCALE_FACTOR_NONE

KNPKB(p, strongSide) ==
  LET weakSide == Them(strongSide)
      pawnSquare == p.list[strongSide]["P"][1]
      bishopSquare == p.list[weakSide]["B"][1]
      weakKingSquare == king_square(p, weakSide)
  IN  IF forward_bb(strongSide, pawnSquare) \cap BishopAttacks(p, bishopSquare) # {}
      THEN distance(weakKingSquare, pawnSquare)
      ELSE SCALE_FACTOR_NONE

\* Whether KPKP gets to the probe of the bitbase
KPKP_probed(p, strongSide) ==
  LET pawnSquare == normalize(p, strongSide, p.list[strongSide]["P"][1])
  IN  ~(rank_of(pawnSquare) >= RANK_5 /\ file_of(pawnSquare) # FILE_A)

\* KPKP with the two answers of the probe exchanged
KPKP_Swapped(p, strongSide, win) ==
  IF ~KPKP_probed(p, strongSide) THEN SCALE_FACTOR_NONE
  ELSE IF win THEN SCALE_FACTOR_DRAW ELSE SCALE_FACTOR_NONE

\* win is the answer of Bitbases::probe_kpk, read only when it is probed
KPKP(p, strongSide, win) ==
  IF ~KPKP_probed(p, strongSide) THEN SCALE_FACTOR_NONE
  ELSE IF win THEN SCALE_FACTOR_NONE ELSE SCALE_FACTOR_DRAW

(***************************************************************************)
(* Calls.  A worker reaches a position; the material table looks its key   *)
(* up in the registry (or picks one of the unregistered functions by its   *)
(* own rules) and the evaluation function selected runs on the position,   *)
(* which meets the material the function asserts.  The side to move is not *)
(* in check ("Eval is never called when in check").                        *)
(***************************************************************************)
\* A piece list holding the king on k and the squares of sq for the types of sq
Lists(k, sq) ==
  [pt \in PieceTypes |-> IF pt = "K" THEN << k >> ELSE IF pt \in DOMAIN sq THEN sq[pt] ELSE << >>]

NoProbe == [asked |-> FALSE]

\* The state after a call: position, function, bitbase probe and value returned
Returned(p, f, b, v) ==
  /\ phase' = "returned"
  /\ pos' = p
  /\ fn' = f
  /\ bitbase' = b
  /\ ret' = v
  /\ UNCHANGED <<pc, m1, m2, call2>>

Idle == Constructed /\ phase = "idle"

\* The caller is done with the value
Done ==
  /\ phase = "returned"
  /\ phase' = "idle"
  /\ pos' = NoPos
  /\ fn' = NoFn
  /\ bitbase' = NoProbe
  /\ ret' = 0
  /\ UNCHANGED <<pc, m1, m2, call2>>

(***************************************************************************)
(* The registry on its own: lookups with the keys of positions of any      *)
(* material up to MaxExtra pieces a side besides the king.  The pieces     *)
(* stand in a row on the first rank (White) and the last rank (Black), as  *)
(* in the FEN strings key() forges.                                        *)
(***************************************************************************)
MaxExtra == 3

\* The multisets of at most n pieces, as counts per type
Material(n) ==
  {m \in [PieceTypes \ {"K"} -> 0..n] : m["P"] + m["N"] + m["B"] + m["R"] + m["Q"] <= n}

\* The squares of a row of pieces starting at square `first': the king, then
\* the pieces of m type by type
RowLists(m, first) ==
  LET before(pt) ==
        1 + (IF pt = "P" THEN 0 ELSE m["P"]
           + (IF pt = "N" THEN 0 ELSE m["N"]
           + (IF pt = "B" THEN 0 ELSE m["B"]
           + (IF pt = "R" THEN 0 ELSE m["R"]))))
  IN  [pt \in PieceTypes |->
         IF pt = "K" THEN << first >>
         ELSE [i \in 1..m[pt] |-> first + before(pt) + i - 1]]

\* endgames.probe(key): the lookup alone, no evaluation
Probe ==
  /\ Idle
  /\ \E w \in Material(MaxExtra), b \in Material(MaxExtra), stm \in Color :
       LET p == MkPos(stm, RowLists(w, SQ_A1), RowLists(b, SQ_A8))
       IN  Returned(p, Lookup(material_key(p)), NoProbe, 0)

Next == Add \/ Probe \/ Done

Spec == Init /\ [][Next]_vars

\* The map an endgame type is kept in
MapOf(type) == IF type \in ValueTypes THEN m1 ELSE m2

\* The bindings of a map that hold an endgame of the given type
BindingsOf(type) == {k \in DOMAIN MapOf(type) : MapOf(type)[k].type = type}

\* C1: once the constructor has run, each of the 16 registered configurations
\* has exactly two bindings in its map, under two distinct keys, one for each
\* strongSide; no key is shared, so each map holds exactly 16 bindings (and
\* while the constructor runs no add overwrites an earlier binding).
C1_TwoBindingsEach ==
  /\ Cardinality(DOMAIN m1) + Cardinality(DOMAIN m2) = 2 * pc
  /\ Constructed => (Cardinality(DOMAIN m1) = 16 /\ Cardinality(DOMAIN m2) = 16)
  /\ Idle =>
       \A i \in 1..NumRegistered :
            LET b == BindingsOf(Registered[i].type)
            IN  /\ Cardinality(b) = 2
                /\ {MapOf(Registered[i].type)[k].strongSide : k \in b} = Color

C1_Witness ==
  /\ Constructed
  /\ phase = "returned"
  /\ fn = Endgame("KRPPKRP", BLACK)
  /\ Cardinality(DOMAIN m2) = 16

\* The letters of a code before its second 'K' (strong side) and from it on (weak side)
SecondK(code) == CHOOSE j \in 2..Len(code) : code[j] = "K" /\ \A i \in 2..(j - 1) : code[i] # "K"

StrongLetters(code) == [i \in 1..(SecondK(code) - 1) |-> code[i]]

WeakLetters(code) == [i \in 1..(Len(code) - SecondK(code) + 1) |-> code[SecondK(code) + i - 1]]

Occurrences(letters, pt) == Cardinality({i \in 1..Len(letters) : letters[i] = pt})

\* The key of the positions in which colour c holds the strong-side pieces of the code
CensusOf(code, c) ==
  KeyOfCensus([d \in Color |-> [pt \in PieceTypes |->
     Occurrences(IF d = c THEN StrongLetters(code) ELSE WeakLetters(code), pt)]])

\* C2: for every registered code and colour c, the key of the positions in
\* which c holds the strong-side pieces is bound to the code's evaluator with
\* strongSide = c; so a lookup never yields a binding whose strongSide does
\* not hold the strong-side pieces of the position looked up.
C2_StrongSideOfKey ==
  /\ Idle =>
       \A i \in 1..NumRegistered : \A c \in Color :
         LET k == CensusOf(Registered[i].code, c)
         IN  /\ key(Registered[i].code, c) = k
             /\ k \in DOMAIN MapOf(Registered[i].type)
             /\ MapOf(Registered[i].type)[k] = Endgame(Registered[i].type, c)
  /\ (phase = "returned" /\ fn # NoFn) =>
       \E i \in 1..NumRegistered :
         /\ Registered[i].type = fn.type
         /\ material_key(pos) = CensusOf(Registered[i].code, fn.strongSide)

C2_Witness ==
  /\ phase = "returned"
  /\ fn = Endgame("KRKP", BLACK)
  /\ count(pos, BLACK, "R") = 1
  /\ count(pos, WHITE, "P") = 1

(***************************************************************************)
(* The squares the calls draw from.  Kings range over the whole board or   *)
(* over the first NumKingSquares squares of a walk that visits every file  *)
(* and rank; the other pieces over the first squares of fixed lists.       *)
(***************************************************************************)
NumKingSquares == 16

NumPieceSquares == 3

NumPawnSquares == 4

\* The first n squares of the walk 0, 37, 10, 47, ... (a1, f5, c2, h6, ...)
Spread(n) == {(37 * i) % SQUARE_NB : i \in 0..(Min(n, SQUARE_NB) - 1)}

KingSample == Spread(NumKingSquares)

\* c6, b3, d4, e8, g2, b5, h1, e7
PieceSquareList == << 42, 17, 27, 60, 14, 33, 7, 52 >>

PieceSample == {PieceSquareList[i] : i \in 1..Min(NumPieceSquares, Len(PieceSquareList))}

\* c2, h7, d5, e4, a7, g3, b6, f2, a2, h2
PawnSquareList == << 10, 55, 35, 28, 48, 22, 41, 13, 8, 15 >>

PawnSample == {PawnSquareList[i] : i \in 1..Min(NumPawnSquares, Len(PawnSquareList))}

(***************************************************************************)
(* Calls of the value evaluators.  KS is the set the kings are drawn from. *)
(***************************************************************************)
XTypes == {"N", "B", "R", "Q"}

\* The caller selects Endgame<KXK>(c) itself (it is in no map) and calls it
CallKXK(KS) ==
  /\ Idle
  /\ \E c \in Color, stm \in Color, k1 \in KS, k2 \in KS, x \in XTypes, xs \in PieceSample :
       LET p == PosOf(stm, c, Lists(k1, (x :> << xs >>)), Lists(k2, << >>))
       IN  /\ distance(k1, k2) > 1
           /\ LegalPosition(p)
           /\ KXK_pre(p, c)
           /\ Returned(p, Endgame("KXK", c), NoProbe, KXK(p, c))

CallKBNK(KS) ==
  /\ Idle
  /\ \E c \in Color, stm \in Color, k1 \in KS, k2 \in KS, bs \in PieceSample, ns \in PieceSample :
       LET p == PosOf(stm, c, Lists(k1, ("B" :> << bs >>) @@ ("N" :> << ns >>)), Lists(k2, << >>))
           f == Lookup(material_key(p))
       IN  /\ distance(k1, k2) > 1
           /\ LegalPosition(p)
           /\ ~InCheck(p, side_to_move(p))
           /\ f.type = "KBNK"
           /\ KBNK_pre(p, f.strongSide)
           /\ Returned(p, f, NoProbe, KBNK(p, f.strongSide))

\* PS is the set the pawn's square is drawn from
CallKPK(KS, PS) ==
  /\ Idle
  /\ \E c \in Color, stm \in Color, k1 \in KS, k2 \in KS, ps \in PS, win \in BOOLEAN :
       LET p == PosOf(stm, c, Lists(k1, ("P" :> << ps >>)), Lists(k2, << >>))
           f == Lookup(material_key(p))
       IN  /\ distance(k1, k2) > 1
           /\ LegalPosition(p)
           /\ ~InCheck(p, side_to_move(p))
           /\ f.type = "KPK"
           /\ KPK_pre(p, f.strongSide)
           /\ Returned(p, f, KPK_probe(p, f.strongSide, win), KPK(p, f.strongSide, win))

CallKRKP(KS) ==
  /\ Idle
  /\ \E c \in Color, stm \in Color, k1 \in KS, k2 \in KS, rs \in PieceSample, ps \in PawnSample :
       LET p == PosOf(stm, c, Lists(k1, ("R" :> << rs >>)), Lists(k2, ("P" :> << ps >>)))
           f == Lookup(material_key(p))
       IN  /\ distance(k1, k2) > 1
           /\ LegalPosition(p)
           /\ ~InCheck(p, side_to_move(p))
           /\ f.type = "KRKP"
           /\ KRKP_pre(p, f.strongSide)
           /\ Returned(p, f, NoProbe, KRKP(p, f.strongSide))

CallKRKB(KS) ==
  /\ Idle
  /\ \E c \in Color, stm \in Color, k1 \in KS, k2 \in KS, rs \in PieceSample, bs \in PieceSample :
       LET p == PosOf(stm, c, Lists(k1, ("R" :> << rs >>)), Lists(k2, ("B" :> << bs >>)))
           f == Lookup(material_key(p))
       IN  /\ distance(k1, k2) > 1
           /\ LegalPosition(p)
           /\ ~InCheck(p, side_to_move(p))
           /\ f.type = "KRKB"
           /\ KRKB_pre(p, f.strongSide)
           /\ Returned(p, f, NoProbe, KRKB(p, f.strongSide))

CallKRKN(KS) ==
  /\ Idle
  /\ \E c \in Color, stm \in Color, k1 \in KS, k2 \in KS, rs \in PieceSample, ns \in PieceSample :
       LET p == PosOf(stm, c, Lists(k1, ("R" :> << rs >>)), Lists(k2, ("N" :> << ns >>)))
           f == Lookup(material_key(p))
       IN  /\ distance(k1, k2) > 1
           /\ LegalPosition(p)
           /\ ~InCheck(p, side_to_move(p))
           /\ f.type = "KRKN"
           /\ KRKN_pre(p, f.strongSide)
           /\ Returned(p, f, NoProbe, KRKN(p, f.strongSide))

CallKQKP(KS) ==
  /\ Idle
  /\ \E c \in Color, stm \in Color, k1 \in KS, k2 \in KS, qs \in PieceSample, ps \in PawnSample :
       LET p == PosOf(stm, c, Lists(k1, ("Q" :> << qs >>)), Lists(k2, ("P" :> << ps >>)))
           f == Lookup(material_key(p))
       IN  /\ distance(k1, k2) > 1
           /\ LegalPosition(p)
           /\ ~InCheck(p, side_to_move(p))
           /\ f.type = "KQKP"
           /\ KQKP_pre(p, f.strongSide)
           /\ Returned(p, f, NoProbe, KQKP(p, f.strongSide))

CallKQKR(KS) ==
  /\ Idle
  /\ \E c \in Color, stm \in Color, k1 \in KS, k2 \in KS, qs \in PieceSample, rs \in PieceSample :
       LET p == PosOf(stm, c, Lists(k1, ("Q" :> << qs >>)), Lists(k2, ("R" :> << rs >>)))
           f == Lookup(material_key(p))
       IN  /\ distance(k1, k2) > 1
           /\ LegalPosition(p)
           /\ ~InCheck(p, side_to_move(p))
           /\ f.type = "KQKR"
           /\ KQKR_pre(p, f.strongSide)
           /\ Returned(p, f, NoProbe, KQKR(p, f.strongSide))

CallKNNK(KS) ==
  /\ Idle
  /\ \E c \in Color, stm \in Color, k1 \in KS, k2 \in KS, n1 \in PieceSample, n2 \in PieceSample :
       LET p == PosOf(stm, c, Lists(k1, ("N" :> << n1, n2 >>)), Lists(k2, << >>))
           f == Lookup(material_key(p))
       IN  /\ distance(k1, k2) > 1
           /\ LegalPosition(p)
           /\ ~InCheck(p, side_to_move(p))
           /\ f.type = "KNNK"
           /\ Returned(p, f, NoProbe, KNNK(p, f.strongSide))

NextValue ==
  \/ Add
  \/ CallKXK(KingSample) \/ CallKBNK(KingSample) \/ CallKPK(KingSample, PawnSample)
  \/ CallKRKP(KingSample) \/ CallKRKB(KingSample) \/ CallKRKN(KingSample)
  \/ CallKQKP(KingSample) \/ CallKQKR(KingSample) \/ CallKNNK(KingSample)
  \/ Done

SpecValue == Init /\ [][NextValue]_vars

NextKXK == Add \/ CallKXK(Square) \/ Done

SpecKXK == Init /\ [][NextKXK]_vars

\* The squares a pawn can stand on
PawnSquares == {s \in Square : rank_of(s) \in RANK_2..RANK_7}

NextKPK == Add \/ CallKPK(KingSample, PawnSquares) \/ Done

SpecKPK == Init /\ [][NextKPK]_vars

(***************************************************************************)
(* Properties of the value evaluators.                                     *)
(***************************************************************************)
\* The value the function f returns for position p when the bitbase answers win
Evaluate(f, p, win) ==
  CASE f.type = "KXK"  -> KXK(p, f.strongSide)
    [] f.type = "KBNK" -> KBNK(p, f.strongSide)
    [] f.type = "KPK"  -> KPK(p, f.strongSide, win)
    [] f.type = "KRKP" -> KRKP(p, f.strongSide)
    [] f.type = "KRKB" -> KRKB(p, f.strongSide)
    [] f.type = "KRKN" -> KRKN(p, f.strongSide)
    [] f.type = "KQKP" -> KQKP(p, f.strongSide)
    [] f.type = "KQKR" -> KQKR(p, f.strongSide)
    [] f.type = "KNNK" -> KNNK(p, f.strongSide)

\* The same board with the other side to move
FlipStm(p) == [p EXCEPT !.stm = Them(p.stm)]

\* A value evaluator has returned for a board that is a position with either side to move
ValueReturnedBothWays ==
  /\ phase = "returned"
  /\ fn.type \in ValueTypes
  /\ LegalPosition(FlipStm(pos))

\* The value of the same board with the other side to move (for KPK, with the
\* bitbase giving the same answer)
ValueFlipped == Evaluate(fn, FlipStm(pos), bitbase.asked /\ bitbase.win)

\* C3 as stated: for every value evaluator and every board, the value with
\* the other side to move is the negation of the value returned.
C3_Original == ValueReturnedBothWays => ValueFlipped = -ret

\* C3: the value with the other side to move is the negation of the value
\* returned for KBNK, KRKB, KRKN, KQKP, KQKR and KNNK on every board; for KXK
\* when the weak king has a legal move; for KPK when the bitbase answers the
\* same for both sides to move; for KRKP when the same rule of the cascade
\* decides for both sides to move.
C3_SignSymmetry ==
  ( /\ ValueReturnedBothWays
    /\ fn.type = "KXK" => LoneKingHasMove(pos, Them(fn.strongSide))
    /\ fn.type = "KRKP" => KRKP_rule(pos, fn.strongSide) = KRKP_rule(FlipStm(pos), fn.strongSide) )
  => ValueFlipped = -ret

C3_Witness ==
  /\ ValueReturnedBothWays
  /\ fn = Endgame("KQKP", BLACK)
  /\ pos.stm = WHITE
  /\ ret < 0
  /\ ValueFlipped > 0

\* C10: the value returned by a value evaluator is >= 0 when the strong side
\* is to move and <= 0 when the weak side is to move.
C10_SignOrientation ==
  (phase = "returned" /\ fn.type \in ValueTypes) =>
     IF pos.stm = fn.strongSide THEN ret >= 0 ELSE ret <= 0

\* KRKP's drawish rule decided with the strong king as far away as can be
C10_Witness ==
  /\ phase = "returned"
  /\ fn.type = "KRKP"
  /\ KRKP_rule(pos, fn.strongSide) = 3
  /\ pos.stm # fn.strongSide
  /\ ret = -(80 - 8 * 6)

(***************************************************************************)
(* Properties of normalize and of KPK.                                     *)
(***************************************************************************)
KPKReturned == phase = "returned" /\ fn.type = "KPK"

\* C4 as stated: normalising a normalised square changes nothing.
C4_Original ==
  KPKReturned =>
    \A s \in Square :
      normalize(pos, fn.strongSide, normalize(pos, fn.strongSide, s)) = normalize(pos, fn.strongSide, s)

\* C4: normalize is an involution: normalising a normalised square of the
\* same position gives the square started from; it gives the normalised
\* square again only when strongSide is WHITE and the pawn stands on files
\* A-D, where normalize changes no square.
C4_Involution ==
  KPKReturned =>
    LET ss == fn.strongSide
        same == ss = WHITE /\ file_of(pos.list[ss]["P"][1]) < FILE_E
    IN  \A s \in Square :
          /\ normalize(pos, ss, normalize(pos, ss, s)) = s
          /\ same => normalize(pos, ss, s) = s
          /\ ~same => normalize(pos, ss, s) # s

C4_Witness ==
  /\ KPKReturned
  /\ fn.strongSide = BLACK
  /\ file_of(pos.list[BLACK]["P"][1]) >= FILE_E
  /\ bitbase.psq # pos.list[BLACK]["P"][1]

\* C5: KPK probes the bitbase with the normalised squares and with WHITE to
\* move iff the strong side is to move; when the answer is no win the value
\* is VALUE_DRAW, and otherwise the value seen from the strong side is
\* VALUE_KNOWN_WIN + PawnValueEg + the rank index of the normalised pawn,
\* which is more than PawnValueEg.
C5_KPK ==
  KPKReturned =>
    LET ss == fn.strongSide
        fromStrong == IF pos.stm = ss THEN ret ELSE -ret
    IN  /\ bitbase.asked
        /\ bitbase.wksq = normalize(pos, ss, king_square(pos, ss))
        /\ bitbase.psq  = normalize(pos, ss, pos.list[ss]["P"][1])
        /\ bitbase.bksq = normalize(pos, ss, king_square(pos, Them(ss)))
        /\ bitbase.us = WHITE <=> pos.stm = ss
        /\ bitbase.us \in Color
        /\ rank_of(bitbase.psq) = relative_rank(ss, pos.list[ss]["P"][1])
        /\ ~bitbase.win => ret = VALUE_DRAW
        /\ bitbase.win =>
             /\ fromStrong = VALUE_KNOWN_WIN + PawnValueEg + rank_of(bitbase.psq)
             /\ fromStrong > PawnValueEg

C5_Witness ==
  /\ KPKReturned
  /\ fn.strongSide = BLACK
  /\ pos.stm = WHITE
  /\ bitbase.win
  /\ ret = -(VALUE_KNOWN_WIN + PawnValueEg + 5)

(***************************************************************************)
(* Properties of KXK.                                                      *)
(***************************************************************************)
\* KXK has returned for a strong side without pawn, queen, rook, bishop and
\* knight together, or bishop pair
KXKNotDecisive ==
  /\ phase = "returned"
  /\ fn.type = "KXK"
  /\ count(pos, fn.strongSide, "P") = 0
  /\ count(pos, fn.strongSide, "Q") = 0
  /\ count(pos, fn.strongSide, "R") = 0
  /\ ~(count(pos, fn.strongSide, "B") > 0 /\ count(pos, fn.strongSide, "N") > 0)
  /\ ~bishop_pair(pos, fn.strongSide)

\* The edge pull, the closeness bonus and the strong side's non-pawn material
KXKPlainMagnitude ==
    PushToEdgesTable[king_square(pos, Them(fn.strongSide)) + 1]
  + PushCloseTable[distance(king_square(pos, WHITE), king_square(pos, BLACK)) + 1]
  + non_pawn_material(pos, fn.strongSide)

KXKStalemate ==
  pos.stm = Them(fn.strongSide) /\ ~LoneKingHasMove(pos, Them(fn.strongSide))

\* C6 as stated: with non-decisive material the magnitude of the value is
\* edge pull + closeness + non-pawn material.
C6_Original == KXKNotDecisive => Abs(ret) = KXKPlainMagnitude

\* C6: with non-decisive material VALUE_KNOWN_WIN is not added and the
\* magnitude of the value is edge pull + closeness + non-pawn material,
\* unless the weak side is to move and has no legal move: the value is then
\* VALUE_DRAW.
C6_KXKNotDecisive ==
  KXKNotDecisive =>
    /\ Abs(ret) < VALUE_KNOWN_WIN
    /\ ~KXKStalemate => Abs(ret) = KXKPlainMagnitude
    /\ KXKStalemate => ret = VALUE_DRAW

C6_Witness ==
  /\ KXKNotDecisive
  /\ ~KXKStalemate
  /\ count(pos, fn.strongSide, "N") = 1
  /\ pos.stm = Them(fn.strongSide)
  /\ ret = -(100 + 100 + KnightValueMg)

(***************************************************************************)
(* Calls of the scale-factor evaluators KRPKR, KRPPKRP and KBPPKB.         *)
(***************************************************************************)
NumFilePawnSquares == 12

\* The i-th square of the walk b2, b3, ..., b7, c2, ..., c7, d2, ..., g7
FilePawnSquare(i) == make_square(FILE_B + ((i - 1) \div 6), RANK_2 + ((i - 1) % 6))

FilePawnSample == {FilePawnSquare(i) : i \in 1..Min(NumFilePawnSquares, 36)}

\* The pawn squares of the second and seventh ranks
EdgePawnSquares == {s \in PawnSquares : rank_of(s) \in {RANK_2, RANK_7}}

\* The strong rook stands at either end of the pawn's file or in its middle,
\* the weak rook on a square of the sample
CallKRPKR(KS, PS) ==
  /\ Idle
  /\ \E c \in Color, stm \in Color, k1 \in KS, k2 \in KS, ps \in PS,
        rr \in {RANK_1, RANK_4, RANK_8}, r2 \in PieceSample :
       LET r1 == make_square(file_of(ps), rr)
           p == PosOf(stm, c, Lists(k1, ("R" :> << r1 >>) @@ ("P" :> << ps >>)),
                              Lists(k2, ("R" :> << r2 >>)))
           f == Lookup(material_key(p))
       IN  /\ distance(k1, k2) > 1
           /\ LegalPosition(p)
           /\ ~InCheck(p, side_to_move(p))
           /\ f.type = "KRPKR"
           /\ KRPKR_pre(p, f.strongSide)
           /\ Returned(p, f, NoProbe, KRPKR(p, f.strongSide))

\* The evaluator reads neither the strong king nor the rooks: they stand on
\* SQ_H1, SQ_G2 and SQ_G7
CallKRPPKRP(KS, PS) ==
  /\ Idle
  /\ \E c \in Color, stm \in Color, k2 \in KS, p1 \in PS, p2 \in PS, p3 \in PS :
       LET p == PosOf(stm, c, Lists(SQ_H1, ("R" :> << SQ_G2 >>) @@ ("P" :> << p1, p2 >>)),
                              Lists(k2, ("R" :> << SQ_G7 >>) @@ ("P" :> << p3 >>)))
           f == Lookup(material_key(p))
       IN  /\ p1 # p2
           /\ distance(SQ_H1, k2) > 1
           /\ LegalPosition(p)
           /\ ~InCheck(p, side_to_move(p))
           /\ f.type = "KRPPKRP"
           /\ KRPPKRP_pre(p, f.strongSide)
           /\ Returned(p, f, NoProbe, KRPPKRP(p, f.strongSide))

\* The evaluator does not read the strong king: it stands on SQ_H1
CallKBPPKB(KS, PS) ==
  /\ Idle
  /\ \E c \in Color, stm \in Color, k2 \in KS, p1 \in PS, p2 \in PS,
        b1 \in PieceSample, b2 \in PieceSample :
       LET p == PosOf(stm, c, Lists(SQ_H1, ("B" :> << b1 >>) @@ ("P" :> << p1, p2 >>)),
                              Lists(k2, ("B" :> << b2 >>)))
           f == Lookup(material_key(p))
       IN  /\ p1 # p2
           /\ distance(SQ_H1, k2) > 1
           /\ LegalPosition(p)
           /\ ~InCheck(p, side_to_move(p))
           /\ f.type = "KBPPKB"
           /\ KBPPKB_pre(p, f.strongSide)
           /\ Returned(p, f, NoProbe, KBPPKB(p, f.strongSide))

NextKRPKR == Add \/ CallKRPKR(KingSample, EdgePawnSquares) \/ Done

SpecKRPKR == Init /\ [][NextKRPKR]_vars

NextKRPPKRP == Add \/ CallKRPPKRP(KingSample, FilePawnSample) \/ Done

SpecKRPPKRP == Init /\ [][NextKRPPKRP]_vars

NextKBPPKB == Add \/ CallKBPPKB(KingSample, FilePawnSample) \/ Done

SpecKBPPKB == Init /\ [][NextKBPPKB]_vars

(***************************************************************************)
(* Properties of KRPPKRP.                                                  *)
(***************************************************************************)
KRPPKRPReturned == phase = "returned" /\ fn.type = "KRPPKRP"

\* The larger relative rank of the two strong pawns of the position returned for
LargerPawnRank ==
  LET a == relative_rank(fn.strongSide, pos.list[fn.strongSide]["P"][1])
      b == relative_rank(fn.strongSide, pos.list[fn.strongSide]["P"][2])
  IN  IF a > b THEN a ELSE b

\* No strong pawn is passed, and the weak king is within a file of both and
\* beyond the more advanced of them
SwitchEntered ==
  LET ss == fn.strongSide
      k == king_square(pos, Them(ss))
  IN  /\ \A i \in 1..2 : ~pawn_passed(pos, ss, pos.list[ss]["P"][i])
      /\ \A i \in 1..2 : Abs(file_of(k) - file_of(pos.list[ss]["P"][i])) <= 1
      /\ relative_rank(ss, k) > LargerPawnRank

\* C7: in every position with the registered material the graded switch is
\* entered only with the larger relative rank of the strong pawns among the
\* ranks 2..6, the assert(false) branch is never taken, and the factor for
\* ranks 2, 3, 4, 5, 6 is 10, 10, 15, 20, 40; outside the switch the factor
\* is SCALE_FACTOR_NONE.
C7_KRPPKRP ==
  KRPPKRPReturned =>
    /\ ret # AssertFailed
    /\ SwitchEntered =>
         /\ LargerPawnRank \in RANK_2..RANK_6
         /\ ret = << 10, 10, 15, 20, 40 >>[LargerPawnRank]
    /\ ~SwitchEntered => ret = SCALE_FACTOR_NONE

C7_Witness ==
  /\ KRPPKRPReturned
  /\ fn.strongSide = BLACK
  /\ SwitchEntered
  /\ LargerPawnRank = RANK_6
  /\ ret = 40

(***************************************************************************)
(* Properties of KRPKR.                                                    *)
(***************************************************************************)
KRPKRReturned == phase = "returned" /\ fn.type = "KRPKR"

\* The square the strong pawn of position p queens on
QueeningSquareOf(p, ss) ==
  make_square(file_of(p.list[ss]["P"][1]), IF ss = WHITE THEN RANK_8 ELSE RANK_1)

TempoOf(p, ss) == IF p.stm = ss THEN 1 ELSE 0

\* Distance of the strong king of p to the queening square
KingToQueening(p, ss) == distance(king_square(p, ss), QueeningSquareOf(p, ss))

\* The strong pawn of p is on its 7th rank, the strong rook on its file behind
\* it, and the strong king nearer the queening square than the weak king by
\* more than 2 minus the tempo
SeventhRankSupported(p, ss) ==
  /\ relative_rank(ss, p.list[ss]["P"][1]) = RANK_7
  /\ file_of(p.list[ss]["R"][1]) = file_of(p.list[ss]["P"][1])
  /\ relative_rank(ss, p.list[ss]["R"][1]) < RANK_7
  /\ KingToQueening(p, ss) < distance(king_square(p, Them(ss)), QueeningSquareOf(p, ss)) - 2 + TempoOf(p, ss)

\* The pawn is no rook pawn and the strong king is nearer the queening square
\* than the weak king is to the strong rook, the tempo counted
RookOutOfReach(p, ss) ==
  /\ file_of(p.list[ss]["P"][1]) \notin {FILE_A, FILE_H}
  /\ KingToQueening(p, ss) < distance(king_square(p, Them(ss)), p.list[ss]["R"][1]) + TempoOf(p, ss)

\* The position returned for with the strong king on square k instead
WithStrongKing(k) == [pos EXCEPT !.list[fn.strongSide]["K"] = << k >>]

\* C8 as stated: pawn on the 7th, rook behind it and the king nearer by more
\* than 2 minus tempo give a factor below SCALE_FACTOR_MAX that falls as the
\* strong king's distance to the queening square grows.
C8_Original ==
  (KRPKRReturned /\ SeventhRankSupported(pos, fn.strongSide)) =>
     /\ ret < SCALE_FACTOR_MAX
     /\ \A k \in Square :
          LET q == WithStrongKing(k)
          IN  ( /\ LegalPosition(q)
                /\ SeventhRankSupported(q, fn.strongSide)
                /\ KingToQueening(q, fn.strongSide) > KingToQueening(pos, fn.strongSide) )
              => KRPKR(q, fn.strongSide) < ret

\* C8: with the pawn on its 7th rank and not on a rook file, the rook on its
\* file behind it, the strong king nearer the queening square than the weak
\* king by more than 2 minus tempo and nearer it than the weak king is to the
\* strong rook plus tempo, the factor is SCALE_FACTOR_MAX - 2 * distance of
\* the strong king to the queening square: at most SCALE_FACTOR_MAX, equal to
\* it exactly when the king stands on the queening square, and falling as the
\* distance grows.  With a rook pawn the factor is SCALE_FACTOR_NONE; when the
\* weak king is too near the rook it is SCALE_FACTOR_MAX - 8 - 2 * distance
\* if distance(weak king, strong rook) + tempo >= 3 and SCALE_FACTOR_NONE
\* otherwise.
C8_SeventhRankSupported ==
  (KRPKRReturned /\ SeventhRankSupported(pos, fn.strongSide)) =>
     LET ss == fn.strongSide
         d == KingToQueening(pos, ss)
         reach == distance(king_square(pos, Them(ss)), pos.list[ss]["R"][1]) + TempoOf(pos, ss)
     IN  /\ RookOutOfReach(pos, ss) =>
              /\ ret = SCALE_FACTOR_MAX - 2 * d
              /\ ret <= SCALE_FACTOR_MAX
              /\ ret = SCALE_FACTOR_MAX <=> king_square(pos, ss) = QueeningSquareOf(pos, ss)
              /\ \A k \in Square :
                   LET q == WithStrongKing(k)
                   IN  ( /\ LegalPosition(q)
                         /\ SeventhRankSupported(q, ss)
                         /\ RookOutOfReach(q, ss)
                         /\ KingToQueening(q, ss) > d )
                       => KRPKR(q, ss) < ret
         /\ file_of(pos.list[ss]["P"][1]) \in {FILE_A, FILE_H} => ret = SCALE_FACTOR_NONE
         /\ (file_of(pos.list[ss]["P"][1]) \notin {FILE_A, FILE_H} /\ ~RookOutOfReach(pos, ss)) =>
              ret = IF reach >= 3 THEN SCALE_FACTOR_MAX - 8 - 2 * d ELSE SCALE_FACTOR_NONE

C8_Witness ==
  /\ KRPKRReturned
  /\ fn.strongSide = BLACK
  /\ SeventhRankSupported(pos, BLACK)
  /\ RookOutOfReach(pos, BLACK)
  /\ KingToQueening(pos, BLACK) = 2
  /\ ret = SCALE_FACTOR_MAX - 4
  /\ \E k \in Square :
       /\ LegalPosition(WithStrongKing(k))
       /\ SeventhRankSupported(WithStrongKing(k), BLACK)
       /\ RookOutOfReach(WithStrongKing(k), BLACK)
       /\ KingToQueening(WithStrongKing(k), BLACK) > 2

(***************************************************************************)
(* Properties of KBPPKB.                                                   *)
(***************************************************************************)
KBPPKBReturned == phase = "returned" /\ fn.type = "KBPPKB"

OppositeBishops ==
  opposite_colors(pos.list[fn.strongSide]["B"][1], pos.list[Them(fn.strongSide)]["B"][1])

PawnsOnSameFile ==
  file_of(pos.list[fn.strongSide]["P"][1]) = file_of(pos.list[fn.strongSide]["P"][2])

\* The weak king stands on the pawns' file, further up the board (seen from
\* the strong side) than both pawns, on a square of the colour the strong
\* bishop does not run on
KingHoldsFile ==
  LET ss == fn.strongSide
      k == king_square(pos, Them(ss))
      b == pos.list[ss]["B"][1]
  IN  /\ file_of(k) = file_of(pos.list[ss]["P"][1])
      /\ \A i \in 1..2 : relative_rank(ss, k) > relative_rank(ss, pos.list[ss]["P"][i])
      /\ (file_of(k) + rank_of(k)) % 2 # (file_of(b) + rank_of(b)) % 2

\* C9: with opposite-coloured bishops and both strong pawns on one file the
\* factor is SCALE_FACTOR_DRAW when the weak king stands on that file at or
\* beyond the square in front of the frontmost pawn, on a square of the colour
\* opposite to the strong bishop's, and SCALE_FACTOR_NONE otherwise; with
\* same-coloured bishops it is SCALE_FACTOR_NONE.
C9_KBPPKB ==
  KBPPKBReturned =>
    /\ ~OppositeBishops => ret = SCALE_FACTOR_NONE
    /\ (OppositeBishops /\ PawnsOnSameFile) =>
         ret = IF KingHoldsFile THEN SCALE_FACTOR_DRAW ELSE SCALE_FACTOR_NONE

\* The weak king right in front of the frontmost pawn
C9_Witness ==
  /\ KBPPKBReturned
  /\ fn.strongSide = WHITE
  /\ OppositeBishops
  /\ PawnsOnSameFile
  /\ KingHoldsFile
  /\ \E i \in 1..2 : king_square(pos, BLACK) = pos.list[WHITE]["P"][i] + DELTA_N
  /\ ret = SCALE_FACTOR_DRAW


(***************************************************************************)
(* Two workers.  The first calls as above; the second looks a function up  *)
(* for a king and pawn vs king position (OtherLookup), evaluates it later  *)
(* (OtherEval) and is done with the value (OtherDone), while the first     *)
(* worker's calls run in between.                                          *)
(***************************************************************************)
NumWorkerKingSquares == 2

WorkerKings == Spread(NumWorkerKingSquares)

OtherLookup(KS, PS) ==
  /\ Constructed
  /\ call2.phase = "idle"
  /\ \E c \in Color, stm \in Color, k1 \in KS, k2 \in KS, ps \in PS :
       LET p == PosOf(stm, c, Lists(k1, ("P" :> << ps >>)), Lists(k2, << >>))
       IN  /\ distance(k1, k2) > 1
           /\ LegalPosition(p)
           /\ ~InCheck(p, side_to_move(p))
           /\ call2' = [phase |-> "looked", pos |-> p, fn |-> Lookup(material_key(p)),
                        win |-> FALSE, ret |-> 0]
  /\ UNCHANGED <<pc, m1, m2, phase, pos, fn, bitbase, ret>>

OtherEval ==
  /\ call2.phase = "looked"
  /\ call2.fn.type = "KPK"
  /\ \E win \in BOOLEAN :
       call2' = [call2 EXCEPT !.phase = "returned", !.win = win,
                              !.ret = KPK(call2.pos, call2.fn.strongSide, win)]
  /\ UNCHANGED <<pc, m1, m2, phase, pos, fn, bitbase, ret>>

OtherDone ==
  /\ call2.phase = "returned"
  /\ call2' = NoCall
  /\ UNCHANGED <<pc, m1, m2, phase, pos, fn, bitbase, ret>>

NextWorkers ==
  \/ Add
  \/ CallKQKP(WorkerKings) \/ Done
  \/ OtherLookup(WorkerKings, PawnSample) \/ OtherEval \/ OtherDone

SpecWorkers == Init /\ [][NextWorkers]_vars

\* The colour that has the pawn of a king and pawn vs king position
PawnSideOf(p) == IF count(p, WHITE, "P") = 1 THEN WHITE ELSE BLACK

\* The value of a king and pawn vs king position for the bitbase's answer,
\* from the position alone
KPKValueOf(p, win) ==
  LET ss == PawnSideOf(p)
      r == relative_rank(ss, p.list[ss]["P"][1])
  IN  IF ~win THEN VALUE_DRAW
      ELSE IF p.stm = ss THEN VALUE_KNOWN_WIN + PawnValueEg + r
                         ELSE -(VALUE_KNOWN_WIN + PawnValueEg + r)

\* What a step leaves alone once the registry is constructed: both maps; the
\* position and the function of a call of the second worker that is under
\* way; and the value of a finished call, which is that of its own position
\* and bitbase answer
NoWritePath ==
  Constructed =>
    /\ m1' = m1
    /\ m2' = m2
    /\ call2.phase = "looked" => (call2'.pos = call2.pos /\ call2'.fn = call2.fn)
    /\ phase = "returned" /\ phase' = "returned" => (pos' = pos /\ ret' = ret)
    /\ call2'.phase = "returned" =>
         /\ call2'.fn = Endgame("KPK", PawnSideOf(call2'.pos))
         /\ call2'.ret = KPKValueOf(call2'.pos, call2'.win)

\* C11: after construction no step of a lookup or of an evaluation, of either
\* worker and in any interleaving, changes the two registry maps or a queried
\* position, and the value of a call is that of its own position and bitbase
\* answer whatever the other worker did meanwhile.  (The four distance tables
\* are constants of the program and of the model.)
C11_NoWritePath == [][NoWritePath]_vars

\* The first worker has finished a call while a call of the second is under way
C11_Witness ==
  /\ Constructed
  /\ phase = "returned"
  /\ fn.type = "KQKP"
  /\ ret # 0
  /\ call2.phase = "returned"
  /\ call2.win
  /\ call2.ret < 0
  /\ call2.pos # pos
  /\ Cardinality(DOMAIN m1) = 16
  /\ Cardinality(DOMAIN m2) = 16



(***************************************************************************)
(* Calls of the remaining scaling functions.  KBPsK, KQKRPs, KPsK and KPKP *)
(* are in no map: the caller selects them by the material itself.          *)
(***************************************************************************)
NumScaleKingSquares == 8

ScaleKings == Spread(NumScaleKingSquares)

\* The weak side has no pawn, or one pawn right in front of the strong pawn
CallKBPsK(KS, PS) ==
  /\ Idle
  /\ \E c \in Color, stm \in Color, k1 \in KS, k2 \in KS, bs \in PieceSample, ps \in PS,
        blocked \in BOOLEAN :
       LET wp == IF blocked THEN << ps + pawn_push(c) >> ELSE << >>
           p == PosOf(stm, c, Lists(k1, ("B" :> << bs >>) @@ ("P" :> << ps >>)),
                              Lists(k2, ("P" :> wp)))
       IN  /\ distance(k1, k2) > 1
           /\ LegalPosition(p)
           /\ ~InCheck(p, side_to_move(p))
           /\ non_pawn_material(p, c) = BishopValueMg
           /\ count(p, c, "P") >= 1
           /\ Returned(p, Endgame("KBPsK", c), NoProbe, KBPsK(p, c))

CallKQKRPs(KS, PS) ==
  /\ Idle
  /\ \E c \in Color, stm \in Color, k1 \in KS, k2 \in KS, qs \in PieceSample,
        rs \in PieceSample, ps \in PS :
       LET p == PosOf(stm, c, Lists(k1, ("Q" :> << qs >>)),
                              Lists(k2, ("R" :> << rs >>) @@ ("P" :> << ps >>)))
       IN  /\ distance(k1, k2) > 1
           /\ LegalPosition(p)
           /\ ~InCheck(p, side_to_move(p))
           /\ verify_material(p, c, QueenValueMg, 0)
           /\ count(p, Them(c), "R") = 1
           /\ count(p, Them(c), "P") >= 1
           /\ Returned(p, Endgame("KQKRPs", c), NoProbe, KQKRPs(p, c))

CallKRPKB(KS, PS) ==
  /\ Idle
  /\ \E c \in Color, stm \in Color, k1 \in KS, k2 \in KS, rs \in PieceSample,
        bs \in PieceSample, ps \in PS :
       LET p == PosOf(stm, c, Lists(k1, ("R" :> << rs >>) @@ ("P" :> << ps >>)),
                              Lists(k2, ("B" :> << bs >>)))
           f == Lookup(material_key(p))
       IN  /\ distance(k1, k2) > 1
           /\ LegalPosition(p)
           /\ ~InCheck(p, side_to_move(p))
           /\ f.type = "KRPKB"
           /\ verify_material(p, f.strongSide, RookValueMg, 1)
           /\ verify_material(p, Them(f.strongSide), BishopValueMg, 0)
           /\ Returned(p, f, NoProbe, KRPKB(p, f.strongSide))

CallKPsK(KS, PS) ==
  /\ Idle
  /\ \E c \in Color, stm \in Color, k1 \in KS, k2 \in KS, p1 \in PS, p2 \in PS :
       LET p == PosOf(stm, c, Lists(k1, ("P" :> << p1, p2 >>)), Lists(k2, << >>))
       IN  /\ p1 # p2
           /\ distance(k1, k2) > 1
           /\ LegalPosition(p)
           /\ ~InCheck(p, side_to_move(p))
           /\ non_pawn_material(p, c) = VALUE_ZERO
           /\ count(p, c, "P") >= 2
           /\ verify_material(p, Them(c), VALUE_ZERO, 0)
           /\ Returned(p, Endgame("KPsK", c), NoProbe, KPsK(p, c))

\* BS is the set the two bishops' squares are drawn from
CallKBPKB(KS, BS, PS) ==
  /\ Idle
  /\ \E c \in Color, stm \in Color, k1 \in KS, k2 \in KS, b1 \in BS, b2 \in BS, ps \in PS :
       LET p == PosOf(stm, c, Lists(k1, ("B" :> << b1 >>) @@ ("P" :> << ps >>)),
                              Lists(k2, ("B" :> << b2 >>)))
           f == Lookup(material_key(p))
       IN  /\ distance(k1, k2) > 1
           /\ LegalPosition(p)
           /\ ~InCheck(p, side_to_move(p))
           /\ f.type = "KBPKB"
           /\ verify_material(p, f.strongSide, BishopValueMg, 1)
           /\ verify_material(p, Them(f.strongSide), BishopValueMg, 0)
           /\ Returned(p, f, NoProbe, KBPKB(p, f.strongSide))

\* BS is the set the bishop's and the knight's squares are drawn from
CallKBPKN(KS, BS, PS) ==
  /\ Idle
  /\ \E c \in Color, stm \in Color, k1 \in KS, k2 \in KS, bs \in BS, ns \in BS, ps \in PS :
       LET p == PosOf(stm, c, Lists(k1, ("B" :> << bs >>) @@ ("P" :> << ps >>)),
                              Lists(k2, ("N" :> << ns >>)))
           f == Lookup(material_key(p))
       IN  /\ distance(k1, k2) > 1
           /\ LegalPosition(p)
           /\ ~InCheck(p, side_to_move(p))
           /\ f.type = "KBPKN"
           /\ verify_material(p, f.strongSide, BishopValueMg, 1)
           /\ verify_material(p, Them(f.strongSide), KnightValueMg, 0)
           /\ Returned(p, f, NoProbe, KBPKN(p, f.strongSide))

CallKNPK(KS, PS) ==
  /\ Idle
  /\ \E c \in Color, stm \in Color, k1 \in KS, k2 \in KS, ns \in PieceSample, ps \in PS :
       LET p == PosOf(stm, c, Lists(k1, ("N" :> << ns >>) @@ ("P" :> << ps >>)),
                              Lists(k2, << >>))
           f == Lookup(material_key(p))
       IN  /\ distance(k1, k2) > 1
           /\ LegalPosition(p)
           /\ ~InCheck(p, side_to_move(p))
           /\ f.type = "KNPK"
           /\ verify_material(p, f.strongSide, KnightValueMg, 1)
           /\ verify_material(p, Them(f.strongSide), VALUE_ZERO, 0)
           /\ Returned(p, f, NoProbe, KNPK(p, f.strongSide))

\* KNPKB asserts nothing about the material
CallKNPKB(KS, PS) ==
  /\ Idle
  /\ \E c \in Color, stm \in Color, k1 \in KS, k2 \in KS, ns \in PieceSample,
        bs \in PieceSample, ps \in PS :
       LET p == PosOf(stm, c, Lists(k1, ("N" :> << ns >>) @@ ("P" :> << ps >>)),
                              Lists(k2, ("B" :> << bs >>)))
           f == Lookup(material_key(p))
       IN  /\ distance(k1, k2) > 1
           /\ LegalPosition(p)
           /\ ~InCheck(p, side_to_move(p))
           /\ f.type = "KNPKB"
           /\ Returned(p, f, NoProbe, KNPKB(p, f.strongSide))

\* The bitbase is probed with the weak pawn left out, and only when the
\* early return is not taken
KPKP_probe(p, strongSide, win) ==
  IF KPKP_probed(p, strongSide) THEN KPK_probe(p, strongSide, win) ELSE NoProbe

\* PS is the set of the strong pawn's squares, PS2 of the weak pawn's
CallKPKP(KS, PS, PS2) ==
  /\ Idle
  /\ \E c \in Color, stm \in Color, k1 \in KS, k2 \in KS, p1 \in PS, p2 \in PS2,
        win \in BOOLEAN :
       LET p == PosOf(stm, c, Lists(k1, ("P" :> << p1 >>)), Lists(k2, ("P" :> << p2 >>)))
       IN  /\ distance(k1, k2) > 1
           /\ LegalPosition(p)
           /\ ~InCheck(p, side_to_move(p))
           /\ verify_material(p, c, VALUE_ZERO, 1)
           /\ verify_material(p, Them(c), VALUE_ZERO, 1)
           /\ (KPKP_probed(p, c) \/ win)
           /\ Returned(p, Endgame("KPKP", c), KPKP_probe(p, c, win), KPKP(p, c, win))

\* The pawn squares of the a-file from the third rank to the sixth
RookPawnSquares == {s \in PawnSquares : file_of(s) = FILE_A /\ rank_of(s) \in RANK_3..RANK_6}

\* The same of the a-file and of the g-file, third and sixth ranks only
BlockedPawnSquares ==
  {s \in PawnSquares : file_of(s) \in {FILE_A, FILE_G} /\ rank_of(s) \in {RANK_3, RANK_6}}

\* The a-file's pawn squares of the second and seventh ranks
CornerPawnSquares == {s \in EdgePawnSquares : file_of(s) = FILE_A}

\* The pawn squares of the b-file
KnightPawnSquares == {s \in PawnSquares : file_of(s) = FILE_B}

NextScale ==
  \/ Add
  \/ CallKBPsK(KingSample, BlockedPawnSquares)
  \/ CallKQKRPs(ScaleKings, PawnSample)
  \/ CallKRPKR(ScaleKings, PawnSample)
  \/ CallKRPKB(ScaleKings, PawnSample \cup RookPawnSquares)
  \/ CallKRPPKRP(KingSample, KnightPawnSquares)
  \/ CallKPsK(ScaleKings, PawnSample \cup RookPawnSquares)
  \/ CallKBPKB(ScaleKings, PieceSample, PawnSample)
  \/ CallKBPPKB(ScaleKings, KnightPawnSquares)
  \/ CallKBPKN(ScaleKings, PieceSample, PawnSample)
  \/ CallKNPK(ScaleKings, PawnSample \cup CornerPawnSquares)
  \/ CallKNPKB(ScaleKings, PawnSample)
  \/ CallKPKP(ScaleKings, PawnSample, PawnSample)
  \/ Done

SpecScale == Init /\ [][NextScale]_vars

ScaleTypes ==
  {"KBPsK", "KQKRPs", "KRPKR", "KRPKB", "KRPPKRP", "KPsK",
   "KBPKB", "KBPPKB", "KBPKN", "KNPK", "KNPKB", "KPKP"}

\* C12: whatever a scaling function returns is SCALE_FACTOR_NONE or lies in
\* SCALE_FACTOR_DRAW..SCALE_FACTOR_MAX; the graded results of KRPKR, of KRPKB
\* and of KNPKB are among them
C12_FactorInRange ==
  (phase = "returned" /\ fn.type \in ScaleTypes)
    => (ret = SCALE_FACTOR_NONE \/ ret \in SCALE_FACTOR_DRAW..SCALE_FACTOR_MAX)

\* KNPKB has returned the distance of the weak king to the pawn, the bishop
\* watching the pawn's path
C12_Witness ==
  /\ phase = "returned"
  /\ fn.type = "KNPKB"
  /\ ret # SCALE_FACTOR_NONE
  /\ ret = distance(king_square(pos, Them(fn.strongSide)), pos.list[fn.strongSide]["P"][1])
  /\ ret > 1


(***************************************************************************)
(* KBNK: the corner the weak king is driven to.                            *)
(***************************************************************************)
NextKBNK == Add \/ CallKBNK(Square) \/ Done

SpecKBNK == Init /\ [][NextKBNK]_vars

\* The corners of the colour of square b
CornersOfColour(b) ==
  {s \in {SQ_A1, SQ_H1, SQ_A8, make_square(FILE_H, RANK_8)} : ~opposite_colors(s, b)}

\* What KBNK added to VALUE_KNOWN_WIN and to the closeness bonus of the kings
KBNK_cornerTerm ==
  Abs(ret) - VALUE_KNOWN_WIN
           - PushClose(distance(king_square(pos, WHITE), king_square(pos, BLACK)))

\* C13: KBNK's corner term is at most 200, is 200 exactly when the weak king
\* stands on a corner of the colour of the strong bishop's square (a1 and h8
\* for a bishop of a1's colour, a8 and h1 otherwise) and is 130 on the two
\* other corners; the magnitude returned is VALUE_KNOWN_WIN plus the closeness
\* bonus of the kings plus that term
C13_BishopCorners ==
  (phase = "returned" /\ fn.type = "KBNK") =>
    LET bishopSquare == pos.list[fn.strongSide]["B"][1]
        weakKing == king_square(pos, Them(fn.strongSide))
        own == IF opposite_colors(bishopSquare, SQ_A1)
               THEN {SQ_A8, SQ_H1} ELSE {SQ_A1, make_square(FILE_H, RANK_8)}
    IN  /\ own = CornersOfColour(bishopSquare)
        /\ KBNK_cornerTerm <= 200
        /\ (KBNK_cornerTerm = 200) <=> (weakKing \in own)
        /\ weakKing \in (CornersOfColour(SQ_A1) \cup CornersOfColour(SQ_A8)) \ own
             => KBNK_cornerTerm = 130
        /\ \E s \in Square : KBNK_cornerTerm = PushToCorners(s)

\* The bishop is not of a1's colour and the weak king stands on a8
C13_Witness ==
  /\ phase = "returned"
  /\ fn.type = "KBNK"
  /\ opposite_colors(pos.list[fn.strongSide]["B"][1], SQ_A1)
  /\ king_square(pos, Them(fn.strongSide)) = SQ_A8
  /\ KBNK_cornerTerm = 200


(***************************************************************************)
(* KQKP: the positions scored by the distance of the kings alone.          *)
(***************************************************************************)
\* The weak pawn of the returned KQKP call stands on one of the files fs, on
\* the weak side's seventh rank, with its king next to it
KQKP_pawnHeld(fs) ==
  LET weakSide == Them(fn.strongSide)
      pawnSquare == pos.list[weakSide]["P"][1]
  IN  /\ file_of(pawnSquare) \in fs
      /\ relative_rank(weakSide, pawnSquare) = RANK_7
      /\ distance(king_square(pos, weakSide), pawnSquare) = 1

KQKP_closeness == PushClose(distance(king_square(pos, WHITE), king_square(pos, BLACK)))

\* C14 as stated: the magnitude is the closeness bonus alone exactly when the
\* held pawn stands on the a-file or on the h-file
C14_Original ==
  (phase = "returned" /\ fn.type = "KQKP") =>
    Abs(ret) = KQKP_closeness
               + (IF KQKP_pawnHeld({FILE_A, FILE_H}) THEN 0 ELSE QueenValueEg - PawnValueEg)

\* C14: KQKP's magnitude is PushClose[distance of the kings] alone exactly when
\* the weak pawn stands on the a-, c-, f- or h-file, on its seventh rank, with
\* the weak king at distance 1; in every other position QueenValueEg -
\* PawnValueEg is added
C14_HeldPawnFiles ==
  (phase = "returned" /\ fn.type = "KQKP") =>
    Abs(ret) = KQKP_closeness
               + (IF KQKP_pawnHeld({FILE_A, FILE_C, FILE_F, FILE_H})
                  THEN 0 ELSE QueenValueEg - PawnValueEg)

\* A pawn held on the c-file or on the f-file: the closeness bonus alone
C14_Witness ==
  /\ phase = "returned"
  /\ fn.type = "KQKP"
  /\ KQKP_pawnHeld({FILE_C, FILE_F})
  /\ Abs(ret) = KQKP_closeness
  /\ ret # 0


(***************************************************************************)
(* KRKP: the cascade, read off the squares of the position itself.         *)
(***************************************************************************)
\* The magnitude the cascade gives position p with strongSide c when the weak
\* king's threshold is farW and the strong king's is farS
KRKP_cascade(p, c, farW, farS) ==
  LET strongKing == king_square(p, c)
      weakKing == king_square(p, Them(c))
      rook == p.list[c]["R"][1]
      pawn == p.list[Them(c)]["P"][1]
      south == pawn + pawn_push(Them(c))
  IN  IF /\ file_of(strongKing) = file_of(pawn)
         /\ relative_rank(c, strongKing) < relative_rank(c, pawn)
      THEN RookValueEg - distance(strongKing, pawn)
      ELSE IF distance(weakKing, pawn) >= farW /\ distance(weakKing, rook) >= 3
      THEN RookValueEg - distance(strongKing, pawn)
      ELSE IF /\ relative_rank(c, weakKing) <= RANK_3
              /\ distance(weakKing, pawn) = 1
              /\ relative_rank(c, strongKing) >= RANK_4
              /\ distance(strongKing, pawn) > farS
      THEN 80 - 8 * distance(strongKing, pawn)
      ELSE 200 - 8 * (  distance(strongKing, south) - distance(weakKing, south)
                      - relative_rank(c, pawn))

\* C15: KRKP's magnitude is that of the first matching rule of the cascade,
\* with the weak king's threshold 3, or 4 when the weak side is to move, and
\* the strong king's threshold 2, or 3 when the strong side is to move; the
\* side to move enters nowhere else
C15_Cascade ==
  (phase = "returned" /\ fn.type = "KRKP") =>
    LET c == fn.strongSide
    IN  /\ side_to_move(pos) = c       => Abs(ret) = KRKP_cascade(pos, c, 3, 3)
        /\ side_to_move(pos) = Them(c) => Abs(ret) = KRKP_cascade(pos, c, 4, 2)

\* The weak side is to move with its king at distance 3 of the pawn and far
\* from the rook: the second rule, met with the other side to move, is not
C15_Witness ==
  /\ phase = "returned"
  /\ fn.type = "KRKP"
  /\ side_to_move(pos) = Them(fn.strongSide)
  /\ distance(king_square(pos, Them(fn.strongSide)), pos.list[Them(fn.strongSide)]["P"][1]) = 3
  /\ KRKP_cascade(pos, fn.strongSide, 3, 3) # KRKP_cascade(pos, fn.strongSide, 4, 2)
  /\ Abs(ret) = KRKP_cascade(pos, fn.strongSide, 4, 2)


(***************************************************************************)
(* KPKP: the early return and the probe of the bitbase.                    *)
(***************************************************************************)
\* Square s of a position whose strong pawn stands on pawn, seen with the
\* strong side c as White and the pawn on the queen's wing
KPKP_frame(c, pawn, s) ==
  make_square(IF file_of(pawn) >= FILE_E THEN FILE_H - file_of(s) ELSE file_of(s),
              relative_rank(c, s))

\* C16: KPKP returns SCALE_FACTOR_NONE or SCALE_FACTOR_DRAW only; with the
\* strong pawn on its fifth rank or beyond and not on the a-file or the h-file
\* it returns SCALE_FACTOR_NONE and the bitbase is not probed; otherwise the
\* bitbase is probed with the two kings and the strong pawn on their
\* normalised squares, the weak pawn left out, and SCALE_FACTOR_DRAW is
\* returned exactly when it reports no win
C16_DrawByBitbase ==
  (phase = "returned" /\ fn.type = "KPKP") =>
    LET c == fn.strongSide
        pawn == pos.list[c]["P"][1]
        advanced == relative_rank(c, pawn) >= RANK_5 /\ file_of(pawn) \notin {FILE_A, FILE_H}
    IN  /\ ret \in {SCALE_FACTOR_NONE, SCALE_FACTOR_DRAW}
        /\ advanced => (ret = SCALE_FACTOR_NONE /\ ~bitbase.asked)
        /\ ~advanced =>
             /\ bitbase.asked
             /\ (ret = SCALE_FACTOR_DRAW) <=> ~bitbase.win
             /\ bitbase.wksq = KPKP_frame(c, pawn, king_square(pos, c))
             /\ bitbase.psq = KPKP_frame(c, pawn, pawn)
             /\ bitbase.bksq = KPKP_frame(c, pawn, king_square(pos, Them(c)))
             /\ bitbase.us = (IF side_to_move(pos) = c THEN WHITE ELSE BLACK)

\* A rook pawn beyond its fourth rank: the bitbase is probed and reports no win
C16_Witness ==
  /\ phase = "returned"
  /\ fn.type = "KPKP"
  /\ relative_rank(fn.strongSide, pos.list[fn.strongSide]["P"][1]) >= RANK_5
  /\ bitbase.asked
  /\ ~bitbase.win
  /\ ret = SCALE_FACTOR_DRAW


(***************************************************************************)
(* KBPKN and the first case of KBPKB.                                      *)
(***************************************************************************)
NextBlockade ==
  \/ Add
  \/ CallKBPKN(KingSample, PieceSample, PawnSample)
  \/ CallKBPKB(KingSample, PieceSample, PawnSample)
  \/ Done

SpecBlockade == Init /\ [][NextBlockade]_vars

NextNormalize == Add \/ CallKPK(WorkerKings, PawnSquares) \/ Done

SpecNormalize == Init /\ [][NextNormalize]_vars

\* C18: with one pawn of strongSide on the board, normalize takes the pawn's
\* square to a square of the files A to D whose rank is the pawn's rank
\* relative to strongSide; it maps the 64 squares one to one onto themselves
\* and keeps the distance of any two squares
C18_BoardSymmetry ==
  (phase = "returned" /\ fn.type = "KPK") =>
    LET c == fn.strongSide
        pawn == pos.list[c]["P"][1]
        image == [s \in Square |-> normalize(pos, c, s)]
    IN  /\ count(pos, c, "P") = 1
        /\ image \in [Square -> Square]
        /\ file_of(image[pawn]) \in FILE_A..FILE_D
        /\ rank_of(image[pawn]) = relative_rank(c, pawn)
        /\ {image[s] : s \in Square} = Square
        /\ \A a, b \in Square : a < b => distance(image[a], image[b]) = distance(a, b)

\* A pawn of BLACK on the king's wing: both the files and the ranks are turned
C18_Witness ==
  /\ phase = "returned"
  /\ fn.type = "KPK"
  /\ fn.strongSide = BLACK
  /\ file_of(pos.list[BLACK]["P"][1]) >= FILE_E
  /\ bitbase.psq = make_square(FILE_H - file_of(pos.list[BLACK]["P"][1]),
                               RANK_8 - rank_of(pos.list[BLACK]["P"][1]))

====
